---------------------------- MODULE Spec2Model ----------------------------
(***************************************************************************)
(* Scheduling core of bhhoang/batsim-prj: five external decision           *)
(* components for Batsim, each a separate translation unit with its own    *)
(* globals and its own batsim_edc_take_decisions:                          *)
(*   "PC"   powercapped EASY backfilling      src/unnamed/part_000         *)
(*   "EB"   EnergyBud                         src/src/EnergyBud_IDLE.cpp   *)
(*                                            lines 1-307                  *)
(*   "RPC1" reducePC_IDLE                     lines 309-920                *)
(*   "RPC2" reducePC_IDLE, deadlock prevention lines 922-1839              *)
(*   "FCFS" parallel_fcfs baseline            src/unnamed/part_001         *)
(*                                                                         *)
(* st holds the globals of the variant that runs, as a record whose field  *)
(* names are the globals' names.  One action models one call of            *)
(* batsim_edc_take_decisions: the event loop and every scheduling phase    *)
(* that follows it.  Handlers are operators from a state record to a       *)
(* state record (or to the set of records the call can end in, where the   *)
(* C++ has undefined behaviour).                                           *)
(*                                                                         *)
(* Numbers.  The sources compute in double; the model computes in          *)
(* integers on fixed units chosen so that every constant of the source is  *)
(* an integer:                                                             *)
(*   PC    power in 1e-4 W (centiwatt constants times the budget percent)  *)
(*   EB    energy in 1/5625000 Wh, see the EB section                      *)
(*   RPC1  power in 8e-4 W, energy in 8e-4 J                               *)
(*   RPC2  power in 2e-3 W, energy in 2e-3 J                               *)
(*   RPC   reservation times in 1/100 s, rounded down                      *)
(* Job ids are 1,2,3,... in the order of the JobSubmitted events; 0 is the *)
(* empty string.                                                           *)
(***************************************************************************)
EXTENDS Integers, Sequences, FiniteSets, TLC

VARIABLES variant, st, now, nextId, closed, wasEmpty, probe

vars == <<variant, st, now, nextId, closed, wasEmpty, probe>>


(***************************************************************************)
(* Bounds of the model                                                     *)
(***************************************************************************)
MaxHosts == 3      \* hosts of the platform
MaxJobs == 3       \* JobSubmitted events per simulation
MaxBatch == 2      \* events per call
MaxWall == 2       \* walltimes are 1..MaxWall
LongWall == 6      \* RPC2: walltimes are 1 and LongWall

Hosts == {MaxHosts}
Walltimes == IF variant = "RPC2" THEN {1, LongWall} ELSE 1..MaxWall

(***************************************************************************)
(* Helpers                                                                 *)
(***************************************************************************)
Min(a, b) == IF a <= b THEN a ELSE b
Max(a, b) == IF a >= b THEN a ELSE b

\* the first k host numbers, free or not
FirstK(S, k) == 0..(k - 1)

\* the k smallest elements of S: what k steps from std::set::begin() visit
LowestK(S, k) == {x \in S : Cardinality({y \in S : y < x}) < k}

RemoveAt(q, i) == [k \in 1..(Len(q) - 1) |-> IF k < i THEN q[k] ELSE q[k + 1]]

Ids(q) == {q[k].job_id : k \in 1..Len(q)}

\* uint8_t nb_hosts = resource_request(): the request is truncated to 8 bits
ToUint8(n) == n % 256

UnionOf(f) == UNION {f[k] : k \in DOMAIN f}

Restrict(f, S) == [k \in S |-> f[k]]

Extend(f, k, v) == [x \in (DOMAIN f) \cup {k} |-> IF x = k THEN v ELSE f[x]]

(***************************************************************************)
(* Events of a batch.  The simulator numbers the jobs itself; a            *)
(* JobCompleted names a job that an earlier call launched.                 *)
(***************************************************************************)
SubmitEvents(H) ==
    {[type |-> "submit", req |-> w, walltime |-> d, job_id |-> 0] :
        w \in 1..(H + 1), d \in Walltimes}

CompleteEvents(running) ==
    {[type |-> "complete", req |-> 0, walltime |-> 0, job_id |-> j] : j \in running}

AllSubmittedEvent ==
    [type |-> "allsub", req |-> 0, walltime |-> 0, job_id |-> 0]

NbSubmits(b) == Cardinality({k \in 1..Len(b) : b[k].type = "submit"})

\* job ids are given in event order
NumberJobs(b, first) ==
    [k \in 1..Len(b) |->
        IF b[k].type = "submit"
        THEN [b[k] EXCEPT !.job_id =
                 first + Cardinality({m \in 1..(k - 1) : b[m].type = "submit"})]
        ELSE b[k]]

\* AllStaticJobsHaveBeenSubmitted comes once, after the last submission
Closes(b) == \E k \in 1..Len(b) : b[k].type = "allsub"

Batches(H, running, submitted, isClosed) ==
    LET A == CompleteEvents(running)
             \cup (IF isClosed THEN {} ELSE SubmitEvents(H) \cup {AllSubmittedEvent})
        All == UNION {[1..n -> A] : n \in 0..MaxBatch}
    IN  {NumberJobs(b, submitted + 1) : b \in
            {b \in All :
                /\ submitted + NbSubmits(b) <= MaxJobs
                /\ \A k, m \in 1..Len(b) :
                      /\ (k < m /\ b[k].type = "complete") => b[k] # b[m]
                      /\ (k < m /\ b[k].type = "allsub") => b[m].type = "complete"}}

(***************************************************************************)
(* ExecuteJob and RejectJob decisions of the MessageBuilder.  An execute   *)
(* entry also records what the pool looked like when it was emitted.       *)
(***************************************************************************)
ExecuteJob(id, nb, hosts, free, busy, head) ==
    [type |-> "execute", job_id |-> id, nb_hosts |-> nb, hosts |-> hosts,
     free_before |-> free, busy_before |-> busy, head |-> head]

RejectJob(id) ==
    [type |-> "reject", job_id |-> id, nb_hosts |-> 0, hosts |-> {},
     free_before |-> {}, busy_before |-> {}, head |-> FALSE]

(***************************************************************************)
(* PC: powercapped EASY backfilling, src/unnamed/part_000                  *)
(***************************************************************************)
P_COMP_M == 20312
P_IDLE_A == 9500
P_COMP_A == 19074
FullBudget == 100      \* pourcentage_budget = 1.0

\* budget fractions tried, in percent
PC_Budgets == {70, 100}

PC_Globals(pct) ==
    [mb |-> <<>>, jobs |-> <<>>, running_jobs |-> {}, job_allocations |-> <<>>,
     platform_nb_hosts |-> 0, available_res |-> {}, shadow_time |-> 0,
     ENERGY_BUDGET |-> 0, power_limit |-> 0, pourcentage_budget |-> pct,
     current_power |-> 0]

\* current_power as lines 134 and 175 recompute it from the pool
PC_PoolPower(s) ==
    Cardinality(s.available_res) * P_IDLE_A * FullBudget
    + (s.platform_nb_hosts - Cardinality(s.available_res)) * P_COMP_A * FullBudget

PC_SimulationBegins(s, ev) ==
    [s EXCEPT !.platform_nb_hosts = ev.req,
              !.available_res = @ \cup 0..(ev.req - 1),
              !.current_power = ev.req * P_IDLE_A * FullBudget,
              !.ENERGY_BUDGET = ev.req * P_COMP_M * s.pourcentage_budget,
              !.power_limit = ev.req * P_COMP_M * s.pourcentage_budget]

PC_JobSubmitted(s, ev) ==
    LET job == [job_id |-> ev.job_id, nb_hosts |-> ToUint8(ev.req),
                walltime |-> ev.walltime]
    IN  IF job.nb_hosts > s.platform_nb_hosts
        THEN [s EXCEPT !.mb = Append(@, RejectJob(job.job_id))]
        ELSE [s EXCEPT !.jobs = Append(@, job),
                       !.shadow_time = IF Len(s.jobs) = 0 THEN job.walltime ELSE @]

PC_JobCompleted(s, ev) ==
    IF ev.job_id \in s.running_jobs
    THEN LET freed == [s EXCEPT !.available_res = @ \cup s.job_allocations[ev.job_id]]
         IN  [freed EXCEPT !.current_power = PC_PoolPower(freed),
                           !.running_jobs = @ \ {ev.job_id},
                           !.job_allocations =
                               Restrict(@, (DOMAIN @) \ {ev.job_id})]
    ELSE s

PC_Event(s, ev) ==
    CASE ev.type = "begin" -> PC_SimulationBegins(s, ev)
      [] ev.type = "submit" -> PC_JobSubmitted(s, ev)
      [] ev.type = "complete" -> PC_JobCompleted(s, ev)
      [] OTHER -> s

RECURSIVE PC_Events(_, _, _)
PC_Events(s, batch, i) ==
    IF i > Len(batch) THEN s
    ELSE PC_Events(PC_Event(s, batch[i]), batch, i + 1)

\* a launch that leaves the job in the list
PC_LaunchKeepsQueued(s, i, job_resources, power, head) ==
    LET job == s.jobs[i]
    IN  [s EXCEPT !.available_res = @ \ job_resources,
                  !.current_power = power,
                  !.running_jobs = @ \cup {job.job_id},
                  !.job_allocations = Extend(@, job.job_id, job_resources),
                  !.mb = Append(@, ExecuteJob(job.job_id, job.nb_hosts, job_resources,
                                              s.available_res,
                                              UnionOf(s.job_allocations), head))]

PC_Launch(s, i, job_resources, power, head) ==
    LET job == s.jobs[i]
    IN  [s EXCEPT !.available_res = @ \ job_resources,
                  !.current_power = power,
                  !.running_jobs = @ \cup {job.job_id},
                  !.job_allocations = Extend(@, job.job_id, job_resources),
                  !.mb = Append(@, ExecuteJob(job.job_id, job.nb_hosts, job_resources,
                                              s.available_res,
                                              UnionOf(s.job_allocations), head)),
                  !.jobs = RemoveAt(@, i)]

\* lines 158-202: the first candidate behind the head that passes the test
\* is launched and the loop breaks
RECURSIVE PC_Backfill(_, _)
PC_Backfill(s, i) ==
    IF i > Len(s.jobs) THEN s
    ELSE LET c == s.jobs[i]
             backfill_power == s.current_power + c.nb_hosts * (P_COMP_A - P_IDLE_A) * FullBudget
         IN  IF /\ Cardinality(s.available_res) >= c.nb_hosts
                /\ c.walltime <= s.shadow_time
                /\ backfill_power <= s.power_limit
             THEN PC_Launch(s, i, LowestK(s.available_res, c.nb_hosts),
                            backfill_power, FALSE)
             ELSE PC_Backfill(s, i + 1)

\* lines 206-209 step an iterator nb_hosts times from available_res.begin()
\* without looking at the size: past end() the reads are undefined.  The
\* values read there are taken to be host numbers (libstdc++ reads the node
\* count of the set), any of them.
PC_HeadResources(s, nb) ==
    IF Cardinality(s.available_res) >= nb
    THEN {LowestK(s.available_res, nb)}
    ELSE {s.available_res \cup G :
            G \in {G \in SUBSET (0..(s.platform_nb_hosts - 1)) :
                     /\ G # {}
                     /\ Cardinality(G) <= nb - Cardinality(s.available_res)}}

\* lines 147-228
PC_Schedule(s) ==
    IF Len(s.jobs) = 0 THEN {s}
    ELSE LET first_job == s.jobs[1]
             soon_power == s.current_power
                           + first_job.nb_hosts * (P_COMP_A - P_IDLE_A) * FullBudget
             first_job_can_run == /\ Cardinality(s.available_res) >= first_job.nb_hosts
                                  /\ soon_power <= s.power_limit
             b == PC_Backfill(s, 2)
         IN  IF first_job_can_run
             THEN {PC_Launch(b, 1, r, soon_power, TRUE) :
                      r \in PC_HeadResources(b, first_job.nb_hosts)}
             ELSE {b}

PC_take_decisions(s, batch) ==
    PC_Schedule(PC_Events([s EXCEPT !.mb = <<>>], batch, 1))

(***************************************************************************)
(* EB: EnergyBud, src/src/EnergyBud_IDLE.cpp lines 1-307                   *)
(*                                                                         *)
(* Energy unit: 1 Wh = 5625000 units, so that the three terms of the       *)
(* source are integers: a host draws power * elapsed / 3600 Wh, which is   *)
(* 1562.5 * power units per second of elapsed time; the budget releases    *)
(* energy_budget / 600 Wh per second of elapsed time.  percentage_budget   *)
(* is counted in 1/10000 of the whole budget.                              *)
(***************************************************************************)
max_energy_budget == 844200       \* 1500.8 Wh, per 1/10000 of budget
power_per_host == 317375          \* 203.12 W, per second, /3600 folded in
idle_power_per_host == 156250     \* 100.0 W, per second, /3600 folded in
monitoring_interval == 600
budget_period_duration == 600

\* budget fractions tried, in 1/10000
EB_Budgets == {2}

EB_Globals(pct) ==
    [mb |-> <<>>, jobs |-> <<>>, running_jobs |-> {}, job_allocations |-> <<>>,
     platform_nb_hosts |-> 0, available_res |-> {},
     percentage_budget |-> pct, energy_budget |-> max_energy_budget * pct,
     energy_consumed |-> 0, energy_available |-> 0,
     last_energy_update_time |-> 0, budget_start_time |-> 0,
     reserved_energy |-> 0, reserved_time_end |-> 0, reserved_job_id |-> 0,
     \* observers: what update_energy has released and the seed it has set
     energy_released |-> 0, energy_seed |-> 0, seedings |-> 0]

\* energy_budget / budget_period_duration
EB_Rate(s) == s.energy_budget \div budget_period_duration

\* required_energy of lines 118, 145 and 156
EB_RequiredEnergy(job) == job.nb_hosts * power_per_host * job.walltime

update_energy(s, current_time) ==
    IF s.budget_start_time = 0
    THEN LET budget == max_energy_budget * s.percentage_budget
         IN  [s EXCEPT !.budget_start_time = current_time,
                       !.last_energy_update_time = current_time,
                       !.energy_budget = budget,
                       !.energy_available =
                           (budget \div budget_period_duration) * monitoring_interval,
                       !.energy_seed =
                           (budget \div budget_period_duration) * monitoring_interval,
                       !.energy_released = 0,
                       !.seedings = Min(@ + 1, 2)]
    ELSE LET elapsed == current_time - s.last_energy_update_time
             energy_released == EB_Rate(s) * elapsed
             active_hosts == s.platform_nb_hosts - Cardinality(s.available_res)
             estimated_consumption ==
                 (active_hosts * power_per_host
                  + Cardinality(s.available_res) * idle_power_per_host) * elapsed
         IN  IF elapsed <= 0 THEN s
             ELSE [s EXCEPT !.energy_available =
                                @ + energy_released - estimated_consumption,
                            !.energy_consumed = @ + estimated_consumption,
                            !.energy_released = @ + energy_released,
                            !.last_energy_update_time = current_time]

\* an energy test that takes no reservation into account
has_enough_energy_unreserved(s, job) ==
    LET available == s.energy_available
        required_energy == EB_RequiredEnergy(job)
        future_available == available + EB_Rate(s) * job.walltime
    IN  required_energy <= future_available /\ available >= 0

has_enough_energy(s, job) ==
    LET available == IF s.reserved_job_id # job.job_id
                     THEN s.energy_available - s.reserved_energy
                     ELSE s.energy_available
        required_energy == EB_RequiredEnergy(job)
        future_available == available + EB_Rate(s) * job.walltime
    IN  required_energy <= future_available /\ available >= 0

can_backfill(s, job, current_time) ==
    \/ current_time + job.walltime <= s.reserved_time_end
    \/ s.reserved_job_id = 0

\* a launch that does not look at the number of free hosts first
allocate_and_launch_unchecked(s, job, head) ==
    LET job_resources == LowestK(s.available_res, job.nb_hosts)
    IN  [s EXCEPT !.available_res = @ \ job_resources,
                  !.running_jobs = @ \cup {job.job_id},
                  !.job_allocations = Extend(@, job.job_id, job_resources),
                  !.energy_available = @ - EB_RequiredEnergy(job),
                  !.mb = Append(@, ExecuteJob(job.job_id, job.nb_hosts,
                                              job_resources, s.available_res,
                                              UnionOf(s.job_allocations), head))]

\* the job has already been taken out of the list, or is erased by the caller
allocate_and_launch(s, job, head) ==
    IF Cardinality(s.available_res) < job.nb_hosts THEN s
    ELSE LET job_resources == LowestK(s.available_res, job.nb_hosts)
         IN  [s EXCEPT !.available_res = @ \ job_resources,
                       !.running_jobs = @ \cup {job.job_id},
                       !.job_allocations = Extend(@, job.job_id, job_resources),
                       !.energy_available = @ - EB_RequiredEnergy(job),
                       !.mb = Append(@, ExecuteJob(job.job_id, job.nb_hosts,
                                                   job_resources, s.available_res,
                                                   UnionOf(s.job_allocations), head))]

\* a reservation whose end is counted from time zero
reserve_for_first_job_from_zero(s, job, current_time) ==
    [s EXCEPT !.reserved_energy = EB_RequiredEnergy(job),
              !.reserved_time_end = job.walltime,
              !.reserved_job_id = job.job_id]

reserve_for_first_job(s, job, current_time) ==
    [s EXCEPT !.reserved_energy = EB_RequiredEnergy(job),
              !.reserved_time_end = current_time + job.walltime,
              !.reserved_job_id = job.job_id]

cancel_reservations(s) ==
    IF s.reserved_job_id # 0
    THEN [s EXCEPT !.reserved_energy = 0, !.reserved_time_end = 0,
                   !.reserved_job_id = 0]
    ELSE s

EB_SimulationBegins(s, ev) ==
    [s EXCEPT !.platform_nb_hosts = ev.req, !.available_res = 0..(ev.req - 1)]

EB_JobSubmitted(s, ev) ==
    LET job == [job_id |-> ev.job_id, nb_hosts |-> ToUint8(ev.req),
                walltime |-> ev.walltime]
    IN  IF job.nb_hosts > s.platform_nb_hosts
        THEN [s EXCEPT !.mb = Append(@, RejectJob(job.job_id))]
        ELSE [s EXCEPT !.jobs = Append(@, job)]

\* a completion that forgets to give the hosts back
EB_JobCompletedKeepsHosts(s, ev) ==
    LET freed == IF ev.job_id \in s.running_jobs
                 THEN [s EXCEPT !.running_jobs = @ \ {ev.job_id},
                                !.job_allocations =
                                    Restrict(@, (DOMAIN @) \ {ev.job_id})]
                 ELSE s
    IN  IF ev.job_id = freed.reserved_job_id THEN cancel_reservations(freed) ELSE freed

EB_JobCompleted(s, ev) ==
    LET freed == IF ev.job_id \in s.running_jobs
                 THEN [s EXCEPT !.available_res = @ \cup s.job_allocations[ev.job_id],
                                !.running_jobs = @ \ {ev.job_id},
                                !.job_allocations =
                                    Restrict(@, (DOMAIN @) \ {ev.job_id})]
                 ELSE s
    IN  IF ev.job_id = freed.reserved_job_id THEN cancel_reservations(freed) ELSE freed

EB_Event(s, ev) ==
    CASE ev.type = "begin" -> EB_SimulationBegins(s, ev)
      [] ev.type = "submit" -> EB_JobSubmitted(s, ev)
      [] ev.type = "complete" -> EB_JobCompleted(s, ev)
      [] OTHER -> s

RECURSIVE EB_Events(_, _, _)
EB_Events(s, batch, i) ==
    IF i > Len(batch) THEN s
    ELSE EB_Events(EB_Event(s, batch[i]), batch, i + 1)

\* lines 244-254: every queued job that passes the test, from the front
RECURSIVE EB_Phase1(_, _, _)
EB_Phase1(s, i, current_time) ==
    IF i > Len(s.jobs) THEN s
    ELSE LET job == s.jobs[i]
         IN  IF /\ Cardinality(s.available_res) >= job.nb_hosts
                /\ has_enough_energy(s, job)
             THEN EB_Phase1([allocate_and_launch(s, job, i = 1)
                                EXCEPT !.jobs = RemoveAt(@, i)], i, current_time)
             ELSE EB_Phase1(s, i + 1, current_time)

\* the blocked head put back with push_back
EB_Phase2PushBack(s, current_time) ==
    IF Len(s.jobs) # 0 /\ s.reserved_job_id = 0
    THEN LET first_job == Head(s.jobs)
             popped == [s EXCEPT !.jobs = Tail(@)]
         IN  IF /\ Cardinality(s.available_res) >= first_job.nb_hosts
                /\ has_enough_energy(s, first_job)
             THEN allocate_and_launch(popped, first_job, TRUE)
             ELSE [reserve_for_first_job(popped, first_job, current_time)
                      EXCEPT !.jobs = Append(@, first_job)]
    ELSE s

\* lines 256-268: pop_front, then launch, or reserve and push_front
EB_Phase2(s, current_time) ==
    IF Len(s.jobs) # 0 /\ s.reserved_job_id = 0
    THEN LET first_job == Head(s.jobs)
             popped == [s EXCEPT !.jobs = Tail(@)]
         IN  IF /\ Cardinality(s.available_res) >= first_job.nb_hosts
                /\ has_enough_energy(s, first_job)
             THEN allocate_and_launch(popped, first_job, TRUE)
             ELSE [reserve_for_first_job(popped, first_job, current_time)
                      EXCEPT !.jobs = <<first_job>> \o @]
    ELSE s

\* lines 270-285
RECURSIVE EB_Phase3(_, _, _)
EB_Phase3(s, i, current_time) ==
    IF s.reserved_job_id = 0 \/ i > Len(s.jobs) THEN s
    ELSE LET job == s.jobs[i]
         IN  IF /\ job.job_id # s.reserved_job_id
                /\ Cardinality(s.available_res) >= job.nb_hosts
                /\ has_enough_energy(s, job)
                /\ can_backfill(s, job, current_time)
             THEN EB_Phase3([allocate_and_launch(s, job, i = 1)
                                EXCEPT !.jobs = RemoveAt(@, i)], i, current_time)
             ELSE EB_Phase3(s, i + 1, current_time)

\* lines 287-297
EB_Phase4(s, current_time) ==
    IF /\ s.reserved_job_id # 0
       /\ Len(s.jobs) # 0
       /\ Head(s.jobs).job_id = s.reserved_job_id
       /\ Cardinality(s.available_res) >= Head(s.jobs).nb_hosts
       /\ has_enough_energy(s, Head(s.jobs))
    THEN cancel_reservations(
             allocate_and_launch([s EXCEPT !.jobs = Tail(@)], Head(s.jobs), TRUE))
    ELSE s

EB_take_decisions(s, batch, current_time) ==
    LET ingested == EB_Events([s EXCEPT !.mb = <<>>], batch, 1)
        updated == update_energy(ingested, current_time)
        p1 == EB_Phase1(updated, 1, current_time)
        p2 == EB_Phase2(p1, current_time)
        p3 == EB_Phase3(p2, 1, current_time)
    IN  EB_Phase4(p3, current_time)

(***************************************************************************)
(* RPC1: reducePC_IDLE, src/src/EnergyBud_IDLE.cpp lines 309-920           *)
(*                                                                         *)
(* Power unit 8e-4 W: P_comp = 203.12 W is 100 * R1_P_comp, so that        *)
(* energy_rate = pourcentage_budget * hosts * P_comp is an integer for a   *)
(* budget counted in percent.  Energy unit 8e-4 J.  Times are seconds; the *)
(* start time of a reservation, which the source computes by a division,   *)
(* is counted in 1/TimeScale s and rounded down.                           *)
(***************************************************************************)
TimeScale == 100
R1_P_comp == 2539             \* 203.12 W, per percent of budget
R1_P_comp_est == 253900       \* 203.12 W
R1_P_idle_est == 125000       \* 100.00 W
R1_budget_end_time == 600
R1_budget_end_extended == 1000000
FarFuture == 1000             \* current_time + 1000.0

\* budget fractions tried, in percent
R1_Budgets == {30}

R1_Globals(pct) ==
    [mb |-> <<>>, jobs |-> <<>>, running_jobs |-> <<>>, platform_nb_hosts |-> 0,
     host_used |-> <<>>, pourcentage_budget |-> pct,
     budget_start_time |-> 0, budget_end_time |-> R1_budget_end_time,
     total_energy_budget |-> 0, energy_rate |-> 0, available_energy |-> 0,
     last_update_time |-> 0, consumed_energy |-> 0,
     reduced_energy_rate |-> 0, reservation_end_time |-> 0,
     has_active_reservation |-> FALSE,
     \* observer: the min_rate_factor last used, in tenths
     min_rate_factor |-> 0]

\* indices of host_used are 0..hosts-1
R1_FreeHosts(s) == {h \in DOMAIN s.host_used : ~s.host_used[h]}

R1_estimate_job_energy(job) == job.nb_hosts * R1_P_comp_est * job.walltime

R1_InBudgetPeriod(s, current_time) ==
    current_time >= s.budget_start_time /\ current_time <= s.budget_end_time

R1_update_available_energy(s, current_time) ==
    IF R1_InBudgetPeriod(s, current_time)
    THEN LET elapsed == IF s.last_update_time < s.budget_start_time
                        THEN current_time - s.budget_start_time
                        ELSE current_time - s.last_update_time
             running_hosts_count == Cardinality(DOMAIN s.host_used)
                                    - Cardinality(R1_FreeHosts(s))
             idle_hosts == s.platform_nb_hosts - running_hosts_count
             busy == LET RECURSIVE Sum(_)
                         Sum(S) == IF S = {} THEN 0
                                   ELSE LET j == CHOOSE j \in S : TRUE
                                        IN  s.running_jobs[j].nb_hosts + Sum(S \ {j})
                     IN  Sum(DOMAIN s.running_jobs)
             period_energy_consumed ==
                 busy * R1_P_comp_est * elapsed + idle_hosts * R1_P_idle_est * elapsed
             added == [s EXCEPT !.consumed_energy = @ + period_energy_consumed,
                                !.available_energy =
                                    IF elapsed > 0
                                    THEN @ + s.reduced_energy_rate * elapsed
                                    ELSE @]
         IN  IF current_time * TimeScale >= s.reservation_end_time
                /\ s.has_active_reservation
             THEN [added EXCEPT !.reduced_energy_rate = s.energy_rate,
                                !.has_active_reservation = FALSE,
                                !.last_update_time = current_time]
             ELSE [added EXCEPT !.last_update_time = current_time]
    ELSE [s EXCEPT !.last_update_time = current_time]

R1_has_enough_energy(s, job, current_time) ==
    IF ~R1_InBudgetPeriod(s, current_time) THEN TRUE
    ELSE R1_estimate_job_energy(job) <= s.available_energy

\* a reservation without the floor of min_rate
R1_reserve_without_floor(s, job, start_time, current_time) ==
    IF ~R1_InBudgetPeriod(s, current_time) THEN s
    ELSE LET job_energy == R1_estimate_job_energy(job)
             time_until_start == start_time - current_time * TimeScale
             energy_rate_reduction == (job_energy * TimeScale) \div time_until_start
         IN  IF time_until_start > 0
             THEN [s EXCEPT !.reduced_energy_rate =
                                Max(0, s.energy_rate - energy_rate_reduction),
                            !.reservation_end_time = start_time,
                            !.has_active_reservation = TRUE,
                            !.min_rate_factor = 3]
             ELSE s

\* start_time is in 1/TimeScale s
R1_reserve_energy_reducePC(s, job, start_time, current_time) ==
    IF ~R1_InBudgetPeriod(s, current_time) THEN s
    ELSE LET job_energy == R1_estimate_job_energy(job)
             time_until_start == start_time - current_time * TimeScale
             energy_rate_reduction == (job_energy * TimeScale) \div time_until_start
             min_rate == (s.energy_rate * 3) \div 10
         IN  IF time_until_start > 0
             THEN [s EXCEPT !.reduced_energy_rate =
                                Max(min_rate, s.energy_rate - energy_rate_reduction),
                            !.reservation_end_time = start_time,
                            !.has_active_reservation = TRUE,
                            !.min_rate_factor = 3]
             ELSE s

\* the first run of nb free hosts in a row, or -1
R1_FirstFit(used, nb) ==
    LET n == Cardinality(DOMAIN used)
        fits == {a \in 0..(n - nb) : \A h \in a..(a + nb - 1) : ~used[h]}
    IN  IF nb = 0 \/ fits = {} THEN -1
        ELSE CHOOSE a \in fits : \A b \in fits : a <= b

R1_CanAllocate(s, job) ==
    job.nb_hosts <= s.platform_nb_hosts /\ R1_FirstFit(s.host_used, job.nb_hosts) >= 0

\* a launch that takes the job from the list without recording it as running
R1_LaunchUnrecorded(s, i, current_time, head) ==
    LET job == s.jobs[i]
        start_host == R1_FirstFit(s.host_used, job.nb_hosts)
        hosts == start_host..(start_host + job.nb_hosts - 1)
    IN  [s EXCEPT !.host_used = [h \in DOMAIN @ |-> @[h] \/ h \in hosts],
                  !.jobs = RemoveAt(@, i),
                  !.mb = Append(@, ExecuteJob(job.job_id, job.nb_hosts, hosts,
                                              R1_FreeHosts(s),
                                              (DOMAIN s.host_used) \ R1_FreeHosts(s),
                                              head))]

\* allocate_hosts_for_job and, when it succeeds, what its callers do with
\* the job: ExecuteJob, start and end times, running_jobs, removal from jobs
R1_Launch(s, i, current_time, head) ==
    LET job == s.jobs[i]
        start_host == R1_FirstFit(s.host_used, job.nb_hosts)
        hosts == start_host..(start_host + job.nb_hosts - 1)
        started == [job EXCEPT !.allocated_hosts = @ \cup hosts,
                               !.start_time = current_time,
                               !.expected_end_time = current_time + job.walltime]
    IN  [s EXCEPT !.host_used = [h \in DOMAIN @ |-> @[h] \/ h \in hosts],
                  !.running_jobs = Extend(@, job.job_id, started),
                  !.jobs = RemoveAt(@, i),
                  !.mb = Append(@, ExecuteJob(job.job_id, job.nb_hosts,
                                              started.allocated_hosts,
                                              R1_FreeHosts(s),
                                              (DOMAIN s.host_used) \ R1_FreeHosts(s),
                                              head))]

R1_CancelReservation(s) ==
    IF s.has_active_reservation
    THEN [s EXCEPT !.reduced_energy_rate = s.energy_rate,
                   !.has_active_reservation = FALSE]
    ELSE s

\* std::min over the expected end times, from current_time + 1000.0
R1_EarliestEnd(s, current_time) ==
    LET ends == {s.running_jobs[j].expected_end_time : j \in DOMAIN s.running_jobs}
                \cup {current_time + FarFuture}
    IN  CHOOSE e \in ends : \A f \in ends : e <= f

\* lines 681-713, in 1/TimeScale s
R1_earliest_start_time(s, reserved_job, available_hosts, current_time) ==
    LET resource_time ==
            IF reserved_job.nb_hosts > available_hosts /\ DOMAIN s.running_jobs # {}
            THEN R1_EarliestEnd(s, current_time) * TimeScale
            ELSE current_time * TimeScale
        missing_energy == R1_estimate_job_energy(reserved_job) - s.available_energy
        energy_start_time ==
            current_time * TimeScale
            + (((11 * TimeScale) \div 10) * missing_energy) \div s.energy_rate
    IN  IF /\ R1_InBudgetPeriod(s, current_time)
           /\ missing_energy > 0
           /\ energy_start_time > resource_time
        THEN energy_start_time
        ELSE resource_time

\* candidates.sort by walltime: std::list::sort is stable
RECURSIVE R1_SortByWalltime(_)
R1_SortByWalltime(q) ==
    IF Len(q) <= 1 THEN q
    ELSE LET m == CHOOSE k \in 1..Len(q) :
                     \A n \in 1..Len(q) :
                        \/ q[k].walltime < q[n].walltime
                        \/ (q[k].walltime = q[n].walltime /\ k <= n)
         IN  <<q[m]>> \o R1_SortByWalltime(RemoveAt(q, m))

R1_IndexOf(q, id) == CHOOSE k \in 1..Len(q) : q[k].job_id = id

\* lines 750-789
RECURSIVE R1_BackfillLoop(_, _, _, _, _)
R1_BackfillLoop(s, candidates, k, available_hosts, current_time) ==
    IF k > Len(candidates) THEN s
    ELSE LET candidate == candidates[k]
         IN  IF R1_has_enough_energy(s, candidate, current_time)
                /\ R1_CanAllocate(s, candidate)
             THEN LET launched == R1_Launch(s, R1_IndexOf(s.jobs, candidate.job_id),
                                            current_time, FALSE)
                  IN  IF available_hosts - candidate.nb_hosts <= 0 THEN launched
                      ELSE R1_BackfillLoop(launched, candidates, k + 1,
                                           available_hosts - candidate.nb_hosts,
                                           current_time)
             ELSE R1_BackfillLoop(s, candidates, k + 1, available_hosts, current_time)

\* lines 611-794
R1_try_schedule_jobs(s, current_time) ==
    IF Len(s.jobs) = 0 THEN s
    ELSE LET first_job == s.jobs[1]
             hosts0 == Cardinality(R1_FreeHosts(s))
             can_run_first_job == /\ first_job.nb_hosts <= hosts0
                                  /\ R1_has_enough_energy(s, first_job, current_time)
             first_started == can_run_first_job /\ R1_CanAllocate(s, first_job)
             s1 == IF first_started
                   THEN R1_CancelReservation(R1_Launch(s, 1, current_time, TRUE))
                   ELSE s
             available_hosts == IF first_started THEN hosts0 - first_job.nb_hosts
                                ELSE hosts0
         IN  IF Len(s1.jobs) = 0 THEN s1
             ELSE LET reserving == ~can_run_first_job
                      earliest_start_time ==
                          IF reserving
                          THEN R1_earliest_start_time(s1, s1.jobs[1], available_hosts,
                                                      current_time)
                          ELSE current_time * TimeScale
                      s2 == IF reserving /\ earliest_start_time > current_time * TimeScale
                            THEN R1_reserve_energy_reducePC(s1, s1.jobs[1],
                                                            earliest_start_time,
                                                            current_time)
                            ELSE s1
                      from == IF reserving THEN 2 ELSE 1
                      candidates ==
                          R1_SortByWalltime(SelectSeq(SubSeq(s2.jobs, from, Len(s2.jobs)),
                              LAMBDA job :
                                 /\ job.nb_hosts <= available_hosts
                                 /\ (~reserving
                                     \/ (current_time + job.walltime) * TimeScale
                                            <= earliest_start_time)))
                  IN  IF available_hosts > 0
                      THEN R1_BackfillLoop(s2, candidates, 1, available_hosts,
                                           current_time)
                      ELSE s2

R1_SimulationBegins(s, ev, current_time) ==
    LET period_duration == s.budget_end_time - s.budget_start_time
        max_energy == ev.req * R1_P_comp * period_duration
        resized == [s EXCEPT !.platform_nb_hosts = ev.req,
                             !.host_used = [h \in 0..(ev.req - 1) |->
                                               IF h \in DOMAIN s.host_used
                                               THEN s.host_used[h] ELSE FALSE]]
    IN  [resized EXCEPT !.total_energy_budget = s.pourcentage_budget * max_energy,
                        !.energy_rate =
                            (s.pourcentage_budget * max_energy) \div period_duration,
                        !.reduced_energy_rate =
                            (s.pourcentage_budget * max_energy) \div period_duration,
                        !.budget_end_time = R1_budget_end_extended,
                        !.last_update_time = current_time]

R1_NewJob(ev, current_time, P_est) ==
    [job_id |-> ev.job_id, nb_hosts |-> ToUint8(ev.req), walltime |-> ev.walltime,
     estimated_energy |-> ToUint8(ev.req) * P_est * ev.walltime,
     allocated_hosts |-> {}, submission_time |-> current_time,
     start_time |-> 0, expected_end_time |-> 0]

R1_JobSubmitted(s, ev, current_time) ==
    LET job == R1_NewJob(ev, current_time, R1_P_comp_est)
    IN  IF job.nb_hosts > s.platform_nb_hosts
        THEN [s EXCEPT !.mb = Append(@, RejectJob(job.job_id))]
        ELSE [s EXCEPT !.jobs = Append(@, job)]

\* a completion that erases the job and leaves its hosts marked as used
R1_JobCompletedKeepsHosts(s, ev) ==
    IF ev.job_id \in DOMAIN s.running_jobs
    THEN R1_CancelReservation(
             [s EXCEPT !.running_jobs = Restrict(@, (DOMAIN @) \ {ev.job_id})])
    ELSE s

R1_JobCompleted(s, ev) ==
    IF ev.job_id \in DOMAIN s.running_jobs
    THEN LET job == s.running_jobs[ev.job_id]
         IN  R1_CancelReservation(
                 [s EXCEPT !.host_used = [h \in DOMAIN @ |->
                                             @[h] /\ h \notin job.allocated_hosts],
                           !.running_jobs = Restrict(@, (DOMAIN @) \ {ev.job_id})])
    ELSE s

\* should_schedule is set by SimulationBegins, by an accepted submission
\* and by the completion of a running job
R1_Schedules(s, ev) ==
    \/ ev.type = "begin"
    \/ ev.type = "submit" /\ ToUint8(ev.req) <= s.platform_nb_hosts
    \/ ev.type = "complete" /\ ev.job_id \in DOMAIN s.running_jobs

R1_Event(s, ev, current_time) ==
    CASE ev.type = "begin" -> R1_SimulationBegins(s, ev, current_time)
      [] ev.type = "submit" -> R1_JobSubmitted(s, ev, current_time)
      [] ev.type = "complete" -> R1_JobCompleted(s, ev)
      [] OTHER -> s

\* the event loop: the state and should_schedule
RECURSIVE R1_Events(_, _, _, _, _)
R1_Events(s, should_schedule, batch, i, current_time) ==
    IF i > Len(batch) THEN <<s, should_schedule>>
    ELSE R1_Events(R1_Event(s, batch[i], current_time),
                   should_schedule \/ R1_Schedules(s, batch[i]),
                   batch, i + 1, current_time)

\* a call that schedules whether or not should_schedule is set
R1_take_decisions_unguarded(s, batch, current_time) ==
    LET updated == R1_update_available_energy(s, current_time)
        ingested == R1_Events([updated EXCEPT !.mb = <<>>], FALSE, batch, 1,
                              current_time)
    IN  R1_try_schedule_jobs(ingested[1], current_time)

R1_take_decisions(s, batch, current_time) ==
    LET updated == R1_update_available_energy(s, current_time)
        ingested == R1_Events([updated EXCEPT !.mb = <<>>], FALSE, batch, 1,
                              current_time)
    IN  IF ingested[2] THEN R1_try_schedule_jobs(ingested[1], current_time)
        ELSE ingested[1]

(***************************************************************************)
(* RPC2: reducePC_IDLE with deadlock prevention,                           *)
(* src/src/EnergyBud_IDLE.cpp lines 922-1839                               *)
(*                                                                         *)
(* Power unit 2e-3 W, energy unit 2e-3 J.                                  *)
(***************************************************************************)
R2_P_comp == 95370            \* 190.74 W
R2_P_comp_est == 101560       \* 203.12 W
R2_P_idle_est == 50000        \* 100.00 W
R2_budget_end_time == 30
R2_init_nb_hosts == 2
emergency_threshold == 10
max_failures_before_override == 3
R2_max_horizon == 5           \* the 5.0 s of the lookahead and of the cap

\* budget_factor = 1.1
R2_Rate(hosts) == (11 * hosts * R2_P_comp) \div 10

R2_Globals ==
    [mb |-> <<>>, jobs |-> <<>>, running_jobs |-> <<>>,
     platform_nb_hosts |-> R2_init_nb_hosts, host_used |-> <<>>,
     budget_start_time |-> 0, budget_end_time |-> R2_budget_end_time,
     total_energy_budget |-> R2_Rate(R2_init_nb_hosts) * R2_budget_end_time,
     energy_rate |-> R2_Rate(R2_init_nb_hosts), available_energy |-> 0,
     last_update_time |-> 0, consumed_energy |-> 0,
     last_job_start_time |-> 0, emergency_mode |-> FALSE,
     consecutive_scheduling_failures |-> 0,
     reduced_energy_rate |-> R2_Rate(R2_init_nb_hosts),
     reservation_end_time |-> 0, has_active_reservation |-> FALSE,
     \* observers: the min_rate_factor last used, in tenths; energy added
     \* by the boosts of the last call
     min_rate_factor |-> 0, boosted |-> 0]

R2_estimate_job_energy(job) == job.nb_hosts * R2_P_comp_est * job.walltime

RECURSIVE R2_SumEnergy(_, _)
R2_SumEnergy(q, i) ==
    IF i > Len(q) THEN 0 ELSE R2_estimate_job_energy(q[i]) + R2_SumEnergy(q, i + 1)

\* lines 1243-1266: in tenths
R2_update_min_rate_factor(q) ==
    LET small_jobs == Cardinality({k \in 1..Len(q) :
                          2 * Len(q) * R2_estimate_job_energy(q[k]) < R2_SumEnergy(q, 1)})
    IN  IF Len(q) # 0 /\ small_jobs > Len(q) \div 2 THEN 5 ELSE 3

\* lines 1380-1392: in tenths
R2_reserve_min_rate_factor(q, job) ==
    LET small_jobs == Cardinality({k \in 1..Len(q) :
                          /\ q[k].job_id # job.job_id
                          /\ 2 * R2_estimate_job_energy(q[k]) < R2_estimate_job_energy(job)})
    IN  IF small_jobs > Len(q) \div 3 THEN 5 ELSE 3

\* horizon2 is twice the horizon, which is a multiple of 0.5 s
calculate_energy_lookahead(s, current_time, horizon2) ==
    LET ending == {j \in DOMAIN s.running_jobs :
                      2 * s.running_jobs[j].expected_end_time
                          <= 2 * current_time + horizon2}
        RECURSIVE Sum(_)
        Sum(S) == IF S = {} THEN 0
                  ELSE LET j == CHOOSE j \in S : TRUE
                       IN  s.running_jobs[j].nb_hosts * R2_P_comp_est
                               * (s.running_jobs[j].expected_end_time - current_time)
                           + Sum(S \ {j})
    IN  Sum(ending)

R2_update_available_energy(s, current_time) ==
    IF R1_InBudgetPeriod(s, current_time)
    THEN LET elapsed == IF s.last_update_time < s.budget_start_time
                        THEN current_time - s.budget_start_time
                        ELSE current_time - s.last_update_time
             running_hosts_count == Cardinality(DOMAIN s.host_used)
                                    - Cardinality(R1_FreeHosts(s))
             idle_hosts == s.platform_nb_hosts - running_hosts_count
             busy == LET RECURSIVE Sum(_)
                         Sum(S) == IF S = {} THEN 0
                                   ELSE LET j == CHOOSE j \in S : TRUE
                                        IN  s.running_jobs[j].nb_hosts + Sum(S \ {j})
                     IN  Sum(DOMAIN s.running_jobs)
             period_energy_consumed ==
                 busy * R2_P_comp_est * elapsed + idle_hosts * R2_P_idle_est * elapsed
             factor == R2_update_min_rate_factor(s.jobs)
             floor_rate == (s.energy_rate * factor) \div 10
             rate == IF elapsed > 0 /\ s.reduced_energy_rate < floor_rate
                     THEN floor_rate ELSE s.reduced_energy_rate
             added == [s EXCEPT !.consumed_energy = @ + period_energy_consumed,
                                !.reduced_energy_rate = rate,
                                !.min_rate_factor = IF elapsed > 0 THEN factor ELSE @,
                                !.available_energy =
                                    IF elapsed > 0 THEN @ + rate * elapsed ELSE @]
             restored == IF current_time * TimeScale >= s.reservation_end_time
                            /\ s.has_active_reservation
                         THEN [added EXCEPT !.reduced_energy_rate = s.energy_rate,
                                            !.has_active_reservation = FALSE]
                         ELSE added
             emergency == IF /\ ~s.emergency_mode
                             /\ current_time - s.last_job_start_time > emergency_threshold
                             /\ Len(s.jobs) # 0
                          THEN [restored EXCEPT !.emergency_mode = TRUE,
                                                !.available_energy = @ + s.energy_rate * 10,
                                                !.boosted = @ + s.energy_rate * 10]
                          ELSE restored
             failing == IF s.consecutive_scheduling_failures >= max_failures_before_override
                        THEN [emergency EXCEPT !.available_energy = @ + s.energy_rate * 5,
                                               !.boosted = @ + s.energy_rate * 5,
                                               !.consecutive_scheduling_failures = 0]
                        ELSE emergency
         IN  [failing EXCEPT !.last_update_time = current_time]
    ELSE [s EXCEPT !.last_update_time = current_time]

R2_has_enough_energy(s, job, current_time) ==
    IF ~R1_InBudgetPeriod(s, current_time) THEN TRUE
    ELSE IF s.consecutive_scheduling_failures >= max_failures_before_override THEN TRUE
    ELSE LET job_energy == R2_estimate_job_energy(job)
             future_energy ==
                 calculate_energy_lookahead(s, current_time,
                                            Min(2 * R2_max_horizon, job.walltime))
             adjusted_available == s.available_energy + future_energy
         IN  IF s.emergency_mode THEN job_energy <= adjusted_available * 3
             ELSE job_energy <= adjusted_available

\* a reservation that does not ask whether the start lies ahead
R2_reserve_unguarded(s, job, start_time, current_time) ==
    IF ~R1_InBudgetPeriod(s, current_time) THEN s
    ELSE LET job_energy == R2_estimate_job_energy(job)
             time_until_start == start_time - current_time * TimeScale
             energy_rate_reduction ==
                 IF time_until_start > 0
                 THEN (job_energy * TimeScale) \div time_until_start
                 ELSE job_energy
             factor == R2_reserve_min_rate_factor(s.jobs, job)
             min_rate == (s.energy_rate * factor) \div 10
         IN  [s EXCEPT !.reduced_energy_rate =
                           Max(min_rate, s.energy_rate - energy_rate_reduction),
                       !.reservation_end_time = start_time,
                       !.has_active_reservation = TRUE,
                       !.min_rate_factor = factor]

R2_reserve_energy_reducePC(s, job, start_time, current_time) ==
    IF ~R1_InBudgetPeriod(s, current_time) THEN s
    ELSE LET job_energy == R2_estimate_job_energy(job)
             time_until_start == start_time - current_time * TimeScale
             energy_rate_reduction == (job_energy * TimeScale) \div time_until_start
             factor == R2_reserve_min_rate_factor(s.jobs, job)
             min_rate == (s.energy_rate * factor) \div 10
         IN  IF time_until_start > 0
             THEN [s EXCEPT !.reduced_energy_rate =
                                Max(min_rate, s.energy_rate - energy_rate_reduction),
                            !.reservation_end_time = start_time,
                            !.has_active_reservation = TRUE,
                            !.min_rate_factor = factor]
             ELSE s

\* -1 for nullptr.  std::priority_queue keeps at the top the first pushed of
\* the jobs of greatest priority: a later job rises only past smaller ones.
find_best_job_for_backfill(s, current_time, available_slots) ==
    LET q == s.jobs
        eligible == {k \in 1..Len(q) : q[k].nb_hosts <= available_slots}
        Less(a, b) == (current_time - q[a].submission_time) * q[b].estimated_energy
                      < (current_time - q[b].submission_time) * q[a].estimated_energy
    IN  IF eligible = {} THEN -1
        ELSE CHOOSE k \in eligible :
                \A m \in eligible : ~Less(k, m) /\ (m < k => Less(m, k))

find_smallest_job(s) ==
    LET q == s.jobs
    IN  IF Len(q) = 0 THEN -1
        ELSE CHOOSE k \in 1..Len(q) :
                \A m \in 1..Len(q) :
                   /\ R2_estimate_job_energy(q[k]) <= R2_estimate_job_energy(q[m])
                   /\ (m < k => R2_estimate_job_energy(q[m]) > R2_estimate_job_energy(q[k]))

\* what every launch of this unit does after allocate_hosts_for_job
R2_Launch(s, i, current_time, head) ==
    [R1_Launch(s, i, current_time, head)
        EXCEPT !.last_job_start_time = current_time,
               !.emergency_mode = FALSE,
               !.consecutive_scheduling_failures = 0]

\* the state and the value returned; i is an index of jobs, or -1
force_schedule_job(s, i, current_time) ==
    IF i = -1 THEN <<s, FALSE>>
    ELSE IF s.jobs[i].nb_hosts <= Cardinality(R1_FreeHosts(s))
            /\ R1_CanAllocate(s, s.jobs[i])
         THEN <<[R2_Launch(s, i, current_time, i = 1)
                    EXCEPT !.reduced_energy_rate = s.energy_rate,
                           !.has_active_reservation = FALSE], TRUE>>
         ELSE <<s, FALSE>>

\* lines 1509-1558, in 1/TimeScale s
R2_earliest_start_time(s, first_job, available_hosts, current_time) ==
    LET resource_time ==
            IF first_job.nb_hosts > available_hosts /\ DOMAIN s.running_jobs # {}
            THEN R1_EarliestEnd(s, current_time) * TimeScale
            ELSE current_time * TimeScale
        needed == R2_estimate_job_energy(first_job) - s.available_energy
        future_energy == calculate_energy_lookahead(s, current_time, 2 * R2_max_horizon)
        missing_energy == Max(0, needed - future_energy)
        energy_start_time ==
            current_time * TimeScale
            + (((11 * TimeScale) \div 10) * missing_energy) \div s.energy_rate
        uncapped == IF /\ R1_InBudgetPeriod(s, current_time)
                       /\ needed > 0
                       /\ energy_start_time > resource_time
                    THEN energy_start_time
                    ELSE resource_time
    IN  Min(uncapped, (current_time + R2_max_horizon) * TimeScale)

\* lines 1572-1619
RECURSIVE R2_BackfillLoop(_, _, _, _)
R2_BackfillLoop(s, first_id, remaining_hosts, current_time) ==
    IF remaining_hosts <= 0 THEN <<s, FALSE>>
    ELSE LET best == find_best_job_for_backfill(s, current_time, remaining_hosts)
         IN  IF best = -1 THEN <<s, FALSE>>
             ELSE IF s.jobs[best].job_id = first_id THEN <<s, FALSE>>
             ELSE IF R2_has_enough_energy(s, s.jobs[best], current_time)
                     /\ R1_CanAllocate(s, s.jobs[best])
                  THEN <<R2_BackfillLoop(R2_Launch(s, best, current_time, FALSE),
                                         first_id,
                                         remaining_hosts - s.jobs[best].nb_hosts,
                                         current_time)[1], TRUE>>
                  ELSE <<s, FALSE>>

\* lines 1622-1646
R2_CountFailure(s, available_hosts, current_time) ==
    LET failures == s.consecutive_scheduling_failures + 1
        counted == [s EXCEPT !.consecutive_scheduling_failures = failures]
        best == IF s.available_energy < s.energy_rate * 5
                THEN find_smallest_job(counted)
                ELSE find_best_job_for_backfill(counted, current_time, available_hosts)
    IN  IF failures >= max_failures_before_override
        THEN force_schedule_job(counted, best, current_time)
        ELSE <<counted, FALSE>>

\* lines 1457-1648, after the emergency attempt
R2_NormalScheduling(s, current_time) ==
    LET first_job == s.jobs[1]
        available_hosts == Cardinality(R1_FreeHosts(s))
        first_started == /\ first_job.nb_hosts <= available_hosts
                         /\ R2_has_enough_energy(s, first_job, current_time)
                         /\ R1_CanAllocate(s, first_job)
    IN  IF first_started
        THEN <<R1_CancelReservation(R2_Launch(s, 1, current_time, TRUE)), TRUE>>
        ELSE LET earliest_start_time ==
                     R2_earliest_start_time(s, first_job, available_hosts, current_time)
                 reserved ==
                     IF earliest_start_time > current_time * TimeScale
                     THEN R2_reserve_energy_reducePC(s, first_job, earliest_start_time,
                                                     current_time)
                     ELSE s
                 filled == R2_BackfillLoop(reserved, first_job.job_id, available_hosts,
                                           current_time)
             IN  IF ~filled[2] /\ available_hosts > 0
                 THEN R2_CountFailure(filled[1], available_hosts, current_time)
                 ELSE filled

\* the state and the value returned
R2_try_schedule_jobs(s, current_time) ==
    IF Len(s.jobs) = 0 THEN <<s, FALSE>>
    ELSE LET forced == IF s.emergency_mode
                       THEN force_schedule_job(s,
                                find_best_job_for_backfill(s, current_time,
                                                           s.platform_nb_hosts),
                                current_time)
                       ELSE <<s, FALSE>>
         IN  IF forced[2] THEN forced
             ELSE R2_NormalScheduling(s, current_time)

R2_SimulationBegins(s, ev, current_time) ==
    [s EXCEPT !.platform_nb_hosts = ev.req,
              !.host_used = [h \in 0..(ev.req - 1) |->
                                IF h \in DOMAIN s.host_used THEN s.host_used[h]
                                ELSE FALSE],
              !.total_energy_budget =
                  R2_Rate(ev.req) * (s.budget_end_time - s.budget_start_time),
              !.energy_rate = R2_Rate(ev.req),
              !.reduced_energy_rate = R2_Rate(ev.req),
              !.available_energy = @ + R2_Rate(ev.req) * 5,
              !.boosted = @ + R2_Rate(ev.req) * 5,
              !.last_job_start_time = current_time]

R2_JobSubmitted(s, ev, current_time) ==
    LET job == R1_NewJob(ev, current_time, R2_P_comp_est)
    IN  IF job.nb_hosts > s.platform_nb_hosts
        THEN [s EXCEPT !.mb = Append(@, RejectJob(job.job_id))]
        ELSE [s EXCEPT !.jobs = Append(@, job)]

R2_AllStaticJobsHaveBeenSubmitted(s) ==
    IF DOMAIN s.running_jobs = {} /\ Len(s.jobs) # 0
    THEN [s EXCEPT !.emergency_mode = TRUE,
                   !.available_energy = @ + s.energy_rate * 10,
                   !.boosted = @ + s.energy_rate * 10]
    ELSE s

R2_Event(s, ev, current_time) ==
    CASE ev.type = "begin" -> R2_SimulationBegins(s, ev, current_time)
      [] ev.type = "submit" -> R2_JobSubmitted(s, ev, current_time)
      [] ev.type = "complete" -> R1_JobCompleted(s, ev)
      [] ev.type = "allsub" -> R2_AllStaticJobsHaveBeenSubmitted(s)
      [] OTHER -> s

RECURSIVE R2_Events(_, _, _, _, _)
R2_Events(s, should_schedule, batch, i, current_time) ==
    IF i > Len(batch) THEN <<s, should_schedule>>
    ELSE R2_Events(R2_Event(s, batch[i], current_time),
                   should_schedule \/ R1_Schedules(s, batch[i])
                       \/ batch[i].type = "allsub",
                   batch, i + 1, current_time)

\* lines 1680-1703
R2_DeadlockChecks(s, current_time) ==
    LET critical == IF /\ DOMAIN s.running_jobs = {}
                       /\ Len(s.jobs) # 0
                       /\ current_time > 10
                       /\ ~s.emergency_mode
                    THEN [s EXCEPT !.emergency_mode = TRUE,
                                   !.available_energy = @ + s.energy_rate * 15,
                                   !.boosted = @ + s.energy_rate * 15]
                    ELSE s
    IN  IF Len(s.jobs) # 0 /\ current_time - s.last_job_start_time > 10
        THEN [critical EXCEPT !.consecutive_scheduling_failures =
                                  Max(@, max_failures_before_override),
                              !.available_energy = @ + s.energy_rate * 5,
                              !.boosted = @ + s.energy_rate * 5]
        ELSE critical

R2_take_decisions(s, batch, current_time) ==
    LET updated == R2_update_available_energy([s EXCEPT !.boosted = 0], current_time)
        idle_hosts == updated.platform_nb_hosts
                      - (Cardinality(DOMAIN updated.host_used)
                         - Cardinality(R1_FreeHosts(updated)))
        checked == R2_DeadlockChecks([updated EXCEPT !.mb = <<>>], current_time)
        ingested == R2_Events(checked, FALSE, batch, 1, current_time)
        tried == R2_try_schedule_jobs(ingested[1], current_time)
    IN  IF ~ingested[2] THEN ingested[1]
        ELSE IF tried[2] THEN tried[1]
        ELSE IF current_time > 12 /\ Len(tried[1].jobs) # 0 /\ idle_hosts > 0
             THEN force_schedule_job(tried[1],
                      find_best_job_for_backfill(tried[1], current_time, idle_hosts),
                      current_time)[1]
             ELSE tried[1]

(***************************************************************************)
(* FCFS: the parallel_fcfs baseline, src/unnamed/part_001                  *)
(***************************************************************************)
Unpredicted == 1000000000     \* current_time + 1e9

FCFS_Globals ==
    [mb |-> <<>>, waiting_jobs |-> <<>>, running_jobs |-> <<>>,
     future_job_completions |-> <<>>, platform_nb_resources |-> 0,
     available_resources |-> {}, current_time |-> 0]

\* IntervalSet::to_string_hyphen: the maximal runs, in increasing order
RECURSIVE to_string_hyphen(_)
to_string_hyphen(S) ==
    IF S = {} THEN <<>>
    ELSE LET lo == CHOOSE x \in S : \A y \in S : x <= y
             hi == CHOOSE x \in S :
                      /\ \A y \in lo..x : y \in S
                      /\ x + 1 \notin S
                      /\ x >= lo
         IN  <<(<<lo, hi>>)>> \o to_string_hyphen({x \in S : x > hi})

\* lines 46-70: walk the runs of the string until enough ids are taken
RECURSIVE FCFS_TakeFromRuns(_, _, _)
FCFS_TakeFromRuns(runs, k, needed) ==
    IF k > Len(runs) \/ needed <= 0 THEN {}
    ELSE LET taken == {i \in runs[k][1]..runs[k][2] : i - runs[k][1] < needed}
         IN  taken \cup FCFS_TakeFromRuns(runs, k + 1, needed - Cardinality(taken))

\* the value returned and the result
find_available_resources(s, nb_resources_needed) ==
    IF Cardinality(s.available_resources) < nb_resources_needed
    THEN <<FALSE, {}>>
    ELSE LET allocated == FCFS_TakeFromRuns(to_string_hyphen(s.available_resources), 1,
                                            nb_resources_needed)
         IN  IF Cardinality(allocated) >= nb_resources_needed
             THEN <<TRUE, allocated>>
             ELSE <<FALSE, {}>>

predict_job_start_time(s, job) ==
    IF find_available_resources(s, job.nb_resources)[1] THEN s.current_time
    ELSE LET size == Cardinality(s.available_resources)
             times == {s.current_time}
                      \cup {s.future_job_completions[k].completion_time :
                              k \in {k \in 1..Len(s.future_job_completions) :
                                       s.future_job_completions[k].completion_time
                                           > s.current_time}}
             \* current_resources once the timeline is walked up to time x
             Upto(x) == size + size * Cardinality({y \in times : y <= x})
             reached == {x \in times : Upto(x) >= job.nb_resources}
         IN  IF reached = {} THEN s.current_time + Unpredicted
             ELSE CHOOSE x \in reached : \A y \in reached : x <= y

\* what schedule_jobs does when find_available_resources gave res to job i
FCFS_Launch(s, i, res, head) ==
    LET job == [s.waiting_jobs[i] EXCEPT !.allocated_resources = res]
    IN  [s EXCEPT !.available_resources = @ \ res,
                  !.mb = Append(@, ExecuteJob(job.job_id, job.nb_resources, res,
                                              s.available_resources,
                                              UNION {s.running_jobs[j].allocated_resources :
                                                        j \in DOMAIN s.running_jobs},
                                              head)),
                  !.running_jobs = Extend(@, job.job_id, job),
                  !.waiting_jobs = RemoveAt(@, i),
                  !.future_job_completions =
                      Append(@, [job_id |-> job.job_id,
                                 completion_time |-> s.current_time + job.walltime,
                                 resources |-> res])]

\* lines 169-193
RECURSIVE FCFS_Backfill(_, _)
FCFS_Backfill(s, i) ==
    IF i > Len(s.waiting_jobs) THEN s
    ELSE LET found == find_available_resources(s, s.waiting_jobs[i].nb_resources)
         IN  IF found[1] THEN FCFS_Backfill(FCFS_Launch(s, i, found[2], FALSE), i)
             ELSE FCFS_Backfill(s, i + 1)

\* std::next(begin()) of a list emptied by pop_front is its end() again
schedule_jobs(s) ==
    IF Len(s.waiting_jobs) = 0 THEN s
    ELSE LET predicted == [s EXCEPT !.waiting_jobs[1].predicted_start_time =
                                        predict_job_start_time(s, s.waiting_jobs[1])]
             found == find_available_resources(predicted,
                                               predicted.waiting_jobs[1].nb_resources)
             first == IF predicted.waiting_jobs[1].predicted_start_time
                             = predicted.current_time /\ found[1]
                      THEN FCFS_Launch(predicted, 1, found[2], TRUE)
                      ELSE predicted
         IN  FCFS_Backfill(first, 2)

FCFS_SimulationBegins(s, ev) ==
    [s EXCEPT !.platform_nb_resources = ev.req,
              !.available_resources = 0..(ev.req - 1)]

FCFS_JobSubmitted(s, ev) ==
    LET job == [job_id |-> ev.job_id, nb_resources |-> ToUint8(ev.req),
                allocated_resources |-> {}, walltime |-> ev.walltime,
                submit_time |-> s.current_time, predicted_start_time |-> 0]
    IN  IF job.nb_resources > s.platform_nb_resources
        THEN [s EXCEPT !.mb = Append(@, RejectJob(job.job_id))]
        ELSE [s EXCEPT !.waiting_jobs = Append(@, job)]

FCFS_JobCompleted(s, ev) ==
    LET freed == IF ev.job_id \in DOMAIN s.running_jobs
                 THEN [s EXCEPT !.available_resources =
                                    @ \cup s.running_jobs[ev.job_id].allocated_resources,
                                !.running_jobs =
                                    Restrict(@, DOMAIN @ \ {ev.job_id})]
                 ELSE s
    IN  [freed EXCEPT !.future_job_completions =
                          SelectSeq(@, LAMBDA c : c.job_id # ev.job_id)]

FCFS_Event(s, ev) ==
    CASE ev.type = "begin" -> FCFS_SimulationBegins(s, ev)
      [] ev.type = "submit" -> FCFS_JobSubmitted(s, ev)
      [] ev.type = "complete" -> FCFS_JobCompleted(s, ev)
      [] OTHER -> s

RECURSIVE FCFS_Events(_, _, _)
FCFS_Events(s, batch, i) ==
    IF i > Len(batch) THEN s
    ELSE FCFS_Events(FCFS_Event(s, batch[i]), batch, i + 1)

FCFS_take_decisions(s, batch) ==
    schedule_jobs(FCFS_Events([s EXCEPT !.mb = <<>>], batch, 1))

(***************************************************************************)
(* Views shared by the variants                                            *)
(***************************************************************************)
IsRPC == variant \in {"RPC1", "RPC2"}

Queue == IF variant = "FCFS" THEN st.waiting_jobs ELSE st.jobs

Free == CASE IsRPC -> R1_FreeHosts(st)
          [] variant = "FCFS" -> st.available_resources
          [] OTHER -> st.available_res

Running == IF IsRPC \/ variant = "FCFS" THEN DOMAIN st.running_jobs
           ELSE st.running_jobs

Alloc(j) == CASE IsRPC -> st.running_jobs[j].allocated_hosts
              [] variant = "FCFS" -> st.running_jobs[j].allocated_resources
              [] OTHER -> st.job_allocations[j]

NbHosts == IF variant = "FCFS" THEN st.platform_nb_resources
           ELSE st.platform_nb_hosts

\* SimulationBegins has been handled
Begun == IF IsRPC THEN DOMAIN st.host_used # {} ELSE NbHosts > 0

\* jobs the decisions of the last call launched
Launched == {st.mb[k].job_id : k \in {k \in 1..Len(st.mb) : st.mb[k].type = "execute"}}

(***************************************************************************)
(* Observers.  wasEmpty tells that the last call had an empty batch.       *)
(* probe, when switched on, follows one job from a call that only submits  *)
(* it to the call that only completes it: it keeps the free hosts and the  *)
(* running jobs from before the submission, and whether any other job was  *)
(* launched on the way.  Any other submission or completion drops the job. *)
(***************************************************************************)
ProbeOff == [phase |-> "off"]
ProbeIdle == [phase |-> "idle"]

Track(batch) ==
    LET core == SelectSeq(batch, LAMBDA e : e.type # "allsub")
        only == IF Len(core) = 1 THEN core[1].type ELSE "none"
    IN  IF probe.phase = "off" THEN probe
        ELSE IF only = "submit" /\ core[1].job_id \in (Ids(Queue') \cup Launched')
        THEN [phase |-> "armed", job |-> core[1].job_id,
              free |-> Free, running |-> Running,
              other |-> (Launched' \ {core[1].job_id} # {})]
        ELSE IF probe.phase = "armed" /\ Len(core) = 0
        THEN [probe EXCEPT !.other = (@ \/ Launched' \ {probe.job} # {})]
        ELSE IF probe.phase = "armed" /\ only = "complete"
                /\ core[1].job_id = probe.job
        THEN [probe EXCEPT !.phase = "done", !.other = (@ \/ Launched' # {})]
        ELSE ProbeIdle

(***************************************************************************)
(* Specification                                                           *)
(***************************************************************************)
BeginEvent(H) == [type |-> "begin", req |-> H, walltime |-> 0, job_id |-> 0]

StartPC ==
    /\ variant = "PC"
    /\ \E pct \in PC_Budgets : st = PC_Globals(pct)
    /\ now = 0
    /\ nextId = 0
    /\ closed = FALSE
    /\ wasEmpty = FALSE

\* the call that delivers SimulationBegins
PC_Begin ==
    /\ variant = "PC" /\ ~Begun
    /\ \E H \in Hosts : st' \in PC_take_decisions(st, <<BeginEvent(H)>>)
    /\ UNCHANGED <<variant, now, nextId, closed, wasEmpty, probe>>

\* any later call; the handler reads no time
PC_Tick ==
    /\ variant = "PC" /\ Begun
    /\ UNCHANGED variant
    /\ \E batch \in Batches(NbHosts, Running, nextId, closed) :
          /\ st' \in PC_take_decisions(st, batch)
          /\ nextId' = nextId + NbSubmits(batch)
          /\ closed' = (closed \/ Closes(batch))
          /\ wasEmpty' = (batch = <<>>)
          /\ probe' = Track(batch)
    /\ UNCHANGED now

NextPC == PC_Begin \/ PC_Tick

InitPC == StartPC /\ probe = ProbeOff

SpecPC == InitPC /\ [][NextPC]_vars

(***************************************************************************)
(* EB calls.  The simulator's clock never runs backwards; the calls are    *)
(* one second apart or simultaneous.                                       *)
(***************************************************************************)
EB_MaxTime == 3
EB_Delays == {0, 1}

StartEB ==
    /\ variant = "EB"
    /\ \E pct \in EB_Budgets : st = EB_Globals(pct)
    /\ now = 0
    /\ nextId = 0
    /\ closed = FALSE
    /\ wasEmpty = FALSE

EB_Begin ==
    /\ variant = "EB" /\ ~Begun
    /\ \E H \in Hosts : st' = EB_take_decisions(st, <<BeginEvent(H)>>, now)
    /\ UNCHANGED <<variant, now, nextId, closed, wasEmpty, probe>>

EB_Tick ==
    /\ variant = "EB" /\ Begun
    /\ UNCHANGED variant
    /\ \E d \in EB_Delays, batch \in Batches(NbHosts, Running, nextId, closed) :
          /\ now + d <= EB_MaxTime
          /\ now' = now + d
          /\ st' = EB_take_decisions(st, batch, now + d)
          /\ nextId' = nextId + NbSubmits(batch)
          /\ closed' = (closed \/ Closes(batch))
          /\ wasEmpty' = (batch = <<>>)
          /\ probe' = Track(batch)

NextEB == EB_Begin \/ EB_Tick

InitEB == StartEB /\ probe = ProbeOff

SpecEB == InitEB /\ [][NextEB]_vars

(***************************************************************************)
(* RPC1 calls                                                              *)
(***************************************************************************)
R1_MaxTime == 4
R1_Delays == {0, 1, 2}

StartRPC1 ==
    /\ variant = "RPC1"
    /\ \E pct \in R1_Budgets : st = R1_Globals(pct)
    /\ now = 0
    /\ nextId = 0
    /\ closed = FALSE
    /\ wasEmpty = FALSE

R1_Begin ==
    /\ variant = "RPC1" /\ ~Begun
    /\ \E H \in Hosts : st' = R1_take_decisions(st, <<BeginEvent(H)>>, now)
    /\ UNCHANGED <<variant, now, nextId, closed, wasEmpty, probe>>

R1_Tick ==
    /\ variant = "RPC1" /\ Begun
    /\ UNCHANGED variant
    /\ \E d \in R1_Delays, batch \in Batches(NbHosts, Running, nextId, closed) :
          /\ now + d <= R1_MaxTime
          /\ now' = now + d
          /\ st' = R1_take_decisions(st, batch, now + d)
          /\ nextId' = nextId + NbSubmits(batch)
          /\ closed' = (closed \/ Closes(batch))
          /\ wasEmpty' = (batch = <<>>)
          /\ probe' = Track(batch)

NextRPC1 == R1_Begin \/ R1_Tick

InitRPC1 == StartRPC1 /\ probe = ProbeOff

SpecRPC1 == InitRPC1 /\ [][NextRPC1]_vars

(***************************************************************************)
(* RPC2 calls: simultaneous, or far enough apart to pass the 10 s and 12 s *)
(* thresholds and, later, the end of the budget period.                    *)
(***************************************************************************)
R2_LongDelay == 16
R2_MaxTime == 32
R2_Delays == {0, R2_LongDelay}
R2_MaxBoosted == 25     \* calls stop once available_energy passes this many seconds of energy_rate

StartRPC2 ==
    /\ variant = "RPC2"
    /\ st = R2_Globals
    /\ now = 0
    /\ nextId = 0
    /\ closed = FALSE
    /\ wasEmpty = FALSE

R2_Begin ==
    /\ variant = "RPC2" /\ ~Begun
    /\ \E H \in Hosts : st' = R2_take_decisions(st, <<BeginEvent(H)>>, now)
    /\ UNCHANGED <<variant, now, nextId, closed, wasEmpty, probe>>

R2_Tick ==
    /\ variant = "RPC2" /\ Begun
    /\ UNCHANGED variant
    /\ st.available_energy <= R2_MaxBoosted * st.energy_rate
    /\ \E d \in R2_Delays, batch \in Batches(NbHosts, Running, nextId, closed) :
          /\ now + d <= R2_MaxTime
          /\ now' = now + d
          /\ st' = R2_take_decisions(st, batch, now + d)
          /\ nextId' = nextId + NbSubmits(batch)
          /\ closed' = (closed \/ Closes(batch))
          /\ wasEmpty' = (batch = <<>>)
          /\ probe' = Track(batch)

NextRPC2 == R2_Begin \/ R2_Tick

InitRPC2 == StartRPC2 /\ probe = ProbeOff

SpecRPC2 == InitRPC2 /\ [][NextRPC2]_vars

StartFCFS ==
    /\ variant = "FCFS"
    /\ st = FCFS_Globals
    /\ now = 0
    /\ nextId = 0
    /\ closed = FALSE
    /\ wasEmpty = FALSE

FCFS_Begin ==
    /\ variant = "FCFS" /\ ~Begun
    /\ \E H \in Hosts : st' = FCFS_take_decisions(st, <<BeginEvent(H)>>)
    /\ UNCHANGED <<variant, now, nextId, closed, wasEmpty, probe>>

\* the handler never reads the time of the message
FCFS_Tick ==
    /\ variant = "FCFS" /\ Begun
    /\ UNCHANGED variant
    /\ \E batch \in Batches(NbHosts, Running, nextId, closed) :
          /\ st' = FCFS_take_decisions(st, batch)
          /\ nextId' = nextId + NbSubmits(batch)
          /\ closed' = (closed \/ Closes(batch))
          /\ wasEmpty' = (batch = <<>>)
          /\ probe' = Track(batch)
    /\ UNCHANGED now

NextFCFS == FCFS_Begin \/ FCFS_Tick

InitFCFS == StartFCFS /\ probe = ProbeOff

SpecFCFS == InitFCFS /\ [][NextFCFS]_vars

(***************************************************************************)
(* All five schedulers.  Each run is one of them from construction on.     *)
(***************************************************************************)
Start == StartPC \/ StartEB \/ StartRPC1 \/ StartRPC2 \/ StartFCFS

Init == Start /\ probe = ProbeOff

Next == NextPC \/ NextEB \/ NextRPC1 \/ NextRPC2 \/ NextFCFS

Spec == Init /\ [][Next]_vars

\* the same runs with the probe switched on
InitProbe == Start /\ probe = ProbeIdle

SpecProbe == InitProbe /\ [][Next]_vars

(***************************************************************************)
(* The open environment.  The simulator sends resource_request as a 32-bit *)
(* number and may name any job in a JobCompleted: one that runs, one that  *)
(* is still queued, one that has completed already, one it never           *)
(* submitted.  A call of this environment delivers one such event; probe   *)
(* keeps the event, and whether its job was running, for the properties    *)
(* that speak of it.                                                       *)
(***************************************************************************)
Wide == 256        \* the first request that does not fit nb_hosts

OpenMaxTime == 2

QueueOf(s) == IF variant = "FCFS" THEN s.waiting_jobs ELSE s.jobs

FreeOf(s) == CASE IsRPC -> R1_FreeHosts(s)
               [] variant = "FCFS" -> s.available_resources
               [] OTHER -> s.available_res

RunningOf(s) == IF IsRPC \/ variant = "FCFS" THEN DOMAIN s.running_jobs
                ELSE s.running_jobs

\* the reservation: job, energy, end and reduced rate, as far as a variant has them
ReservationOf(s) ==
    CASE variant = "EB" -> <<s.reserved_job_id, s.reserved_energy, s.reserved_time_end>>
      [] IsRPC -> <<s.has_active_reservation, s.reduced_energy_rate>>
      [] variant = "PC" -> <<s.shadow_time>>
      [] OTHER -> <<>>

OpenEvents(H, submitted) ==
    {[type |-> "submit", req |-> w, walltime |-> d, job_id |-> submitted + 1] :
        w \in {1, H, H + 1, Wide + 1}, d \in Walltimes}
    \cup {[type |-> "complete", req |-> 0, walltime |-> 0, job_id |-> j] :
             j \in 1..(submitted + 1)}

\* the outcomes of one call of batsim_edc_take_decisions
TakeDecisions(s, batch, t) ==
    CASE variant = "PC" -> PC_take_decisions(s, batch)
      [] variant = "EB" -> {EB_take_decisions(s, batch, t)}
      [] variant = "RPC1" -> {R1_take_decisions(s, batch, t)}
      [] variant = "RPC2" -> {R2_take_decisions(s, batch, t)}
      [] OTHER -> {FCFS_take_decisions(s, batch)}

\* the state of a call when its event loop is over, before it schedules
Ingested(s, batch, t) ==
    CASE variant = "PC" -> PC_Events([s EXCEPT !.mb = <<>>], batch, 1)
      [] variant = "EB" -> EB_Events([s EXCEPT !.mb = <<>>], batch, 1)
      [] variant = "RPC1" ->
            R1_Events([R1_update_available_energy(s, t) EXCEPT !.mb = <<>>],
                      FALSE, batch, 1, t)[1]
      [] variant = "RPC2" ->
            R2_Events(R2_DeadlockChecks(
                          [R2_update_available_energy([s EXCEPT !.boosted = 0], t)
                              EXCEPT !.mb = <<>>], t),
                      FALSE, batch, 1, t)[1]
      [] OTHER -> FCFS_Events([s EXCEPT !.mb = <<>>], batch, 1)

OpenTick ==
    /\ Begun
    /\ UNCHANGED variant
    /\ \E d \in {0, 1}, ev \in OpenEvents(NbHosts, nextId) :
          /\ d = 0 \/ variant \in {"EB", "RPC1", "RPC2"}
          /\ now + d <= OpenMaxTime
          /\ nextId + NbSubmits(<<ev>>) <= MaxJobs
          /\ now' = now + d
          /\ st' \in TakeDecisions(st, <<ev>>, now + d)
          /\ nextId' = nextId + NbSubmits(<<ev>>)
          /\ probe' = [phase |-> "open", ev |-> ev,
                        was_running |-> ev.job_id \in Running]
    /\ UNCHANGED <<closed, wasEmpty>>

NextOpen == PC_Begin \/ EB_Begin \/ R1_Begin \/ R2_Begin \/ FCFS_Begin \/ OpenTick

SpecOpen == Init /\ [][NextOpen]_vars

(***************************************************************************)
(* EB over unbounded time: the calls come one second apart.  The handler   *)
(* reads the clock                                                         *)
(* only in differences and in the test budget_start_time == 0.0, so the    *)
(* clock is kept in EB_Epoch..EB_Epoch + 1: a call that would pass         *)
(* EB_Epoch + 1 first moves every time of the state two seconds back.      *)
(* energy_consumed and the released total are written and never read; they *)
(* are not kept here.  With the budgets of EB_Budgets the release of a     *)
(* second is less than the idle draw of the platform, so energy_available  *)
(* never rises between seedings: once negative it stays negative, every    *)
(* admission test fails on available >= 0, and the amount is not kept.     *)
(***************************************************************************)
EB_Epoch == 1

EB_MoveBack(s) ==
    [s EXCEPT !.last_energy_update_time = @ - 2,
              !.budget_start_time = IF @ = 0 THEN 0 ELSE Max(@ - 2, 1),
              !.reserved_time_end = Max(@ - 2, 0)]

EB_Forget(s) ==
    [s EXCEPT !.energy_consumed = 0,
              !.energy_released = 0,
              !.energy_available = IF @ < 0 THEN -1 ELSE @]

\* the batches of these calls: at most one submission or completion
EB_LiveBatches ==
    {<<>>}
    \cup {NumberJobs(<<e>>, nextId + 1) :
             e \in IF nextId < MaxJobs THEN SubmitEvents(NbHosts) ELSE {}}
    \cup {<<e>> : e \in CompleteEvents(Running)}

EB_LiveCall(batch) ==
    /\ variant = "EB" /\ Begun
    /\ UNCHANGED variant
    /\ LET wraps == now = EB_Epoch + 1
           current_time == IF wraps THEN EB_Epoch ELSE now + 1
       IN  /\ now' = current_time
           /\ st' = EB_Forget(EB_take_decisions(
                        IF wraps THEN EB_MoveBack(st) ELSE st, batch, current_time))
    /\ nextId' = nextId + NbSubmits(batch)
    /\ closed' = (closed \/ Closes(batch))
    /\ wasEmpty' = (batch = <<>>)
    /\ UNCHANGED probe

EB_LiveTick == \E batch \in EB_LiveBatches : EB_LiveCall(batch)

NextEBLive == EB_Begin \/ EB_LiveTick

\* the simulator does deliver SimulationBegins
SpecEBLive == InitEB /\ [][NextEBLive]_vars /\ WF_vars(EB_Begin)

(***************************************************************************)
(* Properties                                                              *)
(***************************************************************************)
Executes == {k \in 1..Len(st.mb) : st.mb[k].type = "execute"}

RECURSIVE SumOfSizes(_)
SumOfSizes(S) ==
    IF S = {} THEN 0
    ELSE LET j == CHOOSE j \in S : TRUE
         IN  Cardinality(Alloc(j)) + SumOfSizes(S \ {j})

\* C1: in EnergyBud and in both reducePC schedulers, after every call the
\* allocations of the running jobs are pairwise disjoint and, with the free
\* hosts, partition 0..H-1; the allocation sizes sum to H minus the number
\* of free hosts.
C1_HostsPartitioned ==
    (variant \in {"EB", "RPC1", "RPC2"} /\ Begun) =>
        /\ \A j, k \in Running : j # k => Alloc(j) \cap Alloc(k) = {}
        /\ \A j \in Running : Alloc(j) \cap Free = {}
        /\ Free \cup UNION {Alloc(j) : j \in Running} = 0..(NbHosts - 1)
        /\ SumOfSizes(Running) = NbHosts - Cardinality(Free)

C1_Witness ==
    /\ variant = "RPC2"
    /\ Cardinality(Running) = 2
    /\ Cardinality(Free) = 1

\* C2: in the powercapped scheduler every ExecuteJob of a call, for a
\* backfilled job or for the head, names exactly nb_hosts distinct hosts,
\* all free just before that launch and none held by a running job.
C2_ExecuteTakesFreeHosts ==
    variant = "PC" =>
        \A k \in Executes :
            /\ Cardinality(st.mb[k].hosts) = st.mb[k].nb_hosts
            /\ st.mb[k].hosts \subseteq st.mb[k].free_before
            /\ st.mb[k].hosts \cap st.mb[k].busy_before = {}

\* C3: in the powercapped scheduler, for every budget fraction, after a call
\* that launched a job the power of the platform computed from the free
\* hosts is at most power_limit, and every launch found at least nb_hosts
\* free hosts.
C3_PowerUnderLimit ==
    (variant = "PC" /\ Executes # {}) =>
        /\ PC_PoolPower(st) <= st.power_limit
        /\ \A k \in Executes :
              Cardinality(st.mb[k].free_before) >= st.mb[k].nb_hosts

\* C4: in EnergyBud, in every reachable state, energy_consumed plus
\* energy_available equals the energy released since the start plus the
\* seed of the first call.
C4_EnergyConserved ==
    (variant = "EB" /\ Begun) =>
        st.energy_consumed + st.energy_available
            = st.energy_released + st.energy_seed

\* C5: in both reducePC schedulers, after SimulationBegins: while
\* has_active_reservation, reduced_energy_rate lies between min_rate_factor
\* times energy_rate and energy_rate; otherwise it equals energy_rate.
C5_ReducedRateBounded ==
    (IsRPC /\ Begun) =>
        IF st.has_active_reservation
        THEN /\ (st.energy_rate * st.min_rate_factor) \div 10 <= st.reduced_energy_rate
             /\ st.reduced_energy_rate <= st.energy_rate
        ELSE st.reduced_energy_rate = st.energy_rate

C5_Witness ==
    /\ variant = "RPC2"
    /\ st.has_active_reservation
    /\ st.min_rate_factor = 5
    /\ st.reduced_energy_rate < st.energy_rate

\* C6: in every scheduler, after every call no job id is both in the wait
\* queue and in the running map.
C6_QueuedNotRunning == Ids(Queue) \cap Running = {}

C6_Witness ==
    /\ variant = "RPC2"
    /\ Launched # {}
    /\ st.emergency_mode = FALSE
    /\ Len(Queue) > 0
    /\ now > 0

\* C7: in every scheduler the wait queue is a subsequence of the accepted
\* submissions in the order of their events: job ids, which are given in
\* event order, increase along the queue.
C7_QueueInEventOrder ==
    /\ Ids(Queue) \subseteq 1..nextId
    /\ \A k, m \in 1..Len(Queue) : k < m => Queue[k].job_id < Queue[m].job_id

C7_Witness ==
    /\ variant = "EB"
    /\ Len(Queue) >= 2
    /\ st.reserved_job_id = Queue[1].job_id

\* C10: in EnergyBud a job as wide as the platform is launched only while
\* it is the head of the queue, and nothing else runs while it runs.
C10_FullWidthAlone ==
    variant = "EB" =>
        /\ \A k \in Executes : st.mb[k].nb_hosts = NbHosts => st.mb[k].head
        /\ \A j \in Running : Cardinality(Alloc(j)) = NbHosts => Running = {j}

IdSeq(q) == [k \in 1..Len(q) |-> q[k].job_id]

\* C8: in every scheduler a call with an empty batch leaves the wait queue,
\* the running map and the free hosts as they were, whatever time elapsed.
C8_EmptyCallChangesNothing ==
    [][wasEmpty' =>
          /\ IdSeq(Queue') = IdSeq(Queue)
          /\ Running' = Running
          /\ Free' = Free]_vars

\* C8, amended: in both reducePC schedulers a call with an empty batch
\* leaves the wait queue, the running map and the free hosts as they were;
\* in the other three the scheduling pass still runs, and all such a call
\* can do is launch queued jobs: nothing is rejected, the jobs that leave
\* the queue are the launched ones and join the running map, the others
\* keep their order, and no host is freed.
C8_EmptyCallOnlyLaunches ==
    [][wasEmpty' =>
          IF IsRPC
          THEN /\ IdSeq(Queue') = IdSeq(Queue)
               /\ Running' = Running
               /\ Free' = Free
          ELSE /\ \A k \in 1..Len(st'.mb) : st'.mb[k].type = "execute"
               /\ Launched' \subseteq Ids(Queue)
               /\ IdSeq(Queue') =
                      SelectSeq(IdSeq(Queue), LAMBDA j : j \notin Launched')
               /\ Running' = Running \cup Launched'
               /\ Free' \subseteq Free]_vars

C8_Witness ==
    /\ wasEmpty
    /\ variant = "RPC2"
    /\ Len(Queue) > 0
    /\ Cardinality(Free) = NbHosts
    /\ st.boosted > 0

\* C9: when a job is submitted, launched and then completed, with no other
\* submission or completion in between, the free hosts and the running map
\* are what they were before the submission.
C9_SubmitCompleteRestores ==
    probe.phase = "done" =>
        /\ Free = probe.free
        /\ Running = probe.running

\* C9, amended: the same, provided that no other job is launched from the
\* call of the submission to the call of the completion.
C9_SubmitCompleteRestoresAlone ==
    (probe.phase = "done" /\ ~probe.other) =>
        /\ Free = probe.free
        /\ Running = probe.running

C9_Witness ==
    /\ probe.phase = "done"
    /\ ~probe.other
    /\ probe.running # {}
    /\ variant = "EB"

Rejected == {st.mb[k].job_id : k \in {k \in 1..Len(st.mb) : st.mb[k].type = "reject"}}

\* C11: a JobSubmitted whose requested width is greater than H is answered
\* by a RejectJob in that call and the job is neither queued nor launched;
\* any other JobSubmitted puts the job in the wait queue (from which the
\* same call may launch it) and no RejectJob is emitted.
C11_WideRequestRejected ==
    (probe.phase = "open" /\ probe.ev.type = "submit") =>
        IF probe.ev.req > NbHosts
        THEN /\ probe.ev.job_id \in Rejected
             /\ probe.ev.job_id \notin Ids(Queue) \cup Running
        ELSE /\ probe.ev.job_id \notin Rejected
             /\ probe.ev.job_id \in Ids(Queue) \cup Launched

\* C12: in EB, when the first call comes at time 0, update_energy seeds
\* energy_available in that call and in no later one: every later call
\* adds the release and subtracts the draw of the elapsed time.
C12_SeededOnce == variant = "EB" => st.seedings <= 1

\* every host that is not free belongs to the allocation of a running job
BusyOwned ==
    \A h \in (0..(NbHosts - 1)) \ Free : \E j \in Running : h \in Alloc(j)

\* C13: a call that ingests JobCompleted for a running job has given every
\* host of the job's allocation back to the pool when its event loop is
\* over, before it schedules; the job is in the running map neither then
\* nor after the call; and at no time is a host busy without a running job
\* that owns it.
C13_CompletionFreesHosts ==
    [][/\ BusyOwned'
       /\ (probe'.phase = "open" /\ probe'.ev.type = "complete"
              /\ probe'.ev.job_id \in Running) =>
             LET mid == Ingested(st, <<probe'.ev>>, now')
             IN  /\ Alloc(probe'.ev.job_id) \subseteq FreeOf(mid)
                 /\ probe'.ev.job_id \notin RunningOf(mid)
                 /\ probe'.ev.job_id \notin Running']_vars

\* a completion has just freed the hosts of a job while another job runs
C13_Witness ==
    /\ probe.phase = "open" /\ probe.ev.type = "complete"
    /\ probe.was_running
    /\ probe.ev.job_id \notin Running
    /\ Running # {}
    /\ Free # {}

\* the walltime of job j, queued in q or submitted by event ev
WalltimeOf(q, ev, j) ==
    IF ev.type = "submit" /\ ev.job_id = j THEN ev.walltime
    ELSE q[CHOOSE k \in 1..Len(q) : q[k].job_id = j].walltime

\* C14: in EB, while a reservation is held for the pivot, a call launches a
\* queued job other than the pivot only if the job ends by the end of the
\* reservation: now + walltime <= reserved_time_end, in the sweep of lines
\* 244-254 as in the backfill sweep.
C14_LaunchEndsBeforeReservation ==
    [][(/\ variant = "EB" /\ probe'.phase = "open"
        /\ st.reserved_job_id # 0
        /\ st.reserved_job_id \in Ids(st'.jobs)
        /\ st'.reserved_job_id = st.reserved_job_id
        /\ st'.reserved_time_end = st.reserved_time_end) =>
           \A j \in Launched' \ {st.reserved_job_id} :
               now' + WalltimeOf(st.jobs, probe'.ev, j) <= st.reserved_time_end]_vars

\* the start try_schedule_jobs expects for the head of queue s.jobs, in 1/TimeScale s
ExpectedStart(s, current_time) ==
    IF variant = "RPC1"
    THEN R1_earliest_start_time(s, s.jobs[1], Cardinality(R1_FreeHosts(s)), current_time)
    ELSE R2_earliest_start_time(s, s.jobs[1], Cardinality(R1_FreeHosts(s)), current_time)

\* C15: in RPC1 and RPC2, a call that does not launch the head of the queue
\* launches another queued job only if that job ends by the start expected
\* for the head: now + walltime <= expected start.
C15_BackfillEndsBeforeHeadStart ==
    [][(IsRPC /\ probe'.phase = "open") =>
          LET mid == Ingested(st, <<probe'.ev>>, now')
          IN  (Len(mid.jobs) > 0 /\ mid.jobs[1].job_id \notin Launched') =>
                 \A j \in Launched' :
                    (now' + st'.running_jobs[j].walltime) * TimeScale
                        <= ExpectedStart(mid, now')]_vars

\* every call moves the clock, so the calls never stop exactly when the
\* clock is at both of its values again and again
CallsKeepComing == []<>(now = EB_Epoch) /\ []<>(now = EB_Epoch + 1)

\* no job runs for ever
JobsComplete == \A j \in 1..MaxJobs : []<>(j \notin Running)

\* C16: in EB with a positive release rate, when the calls keep coming with
\* an advancing clock and every launched job is completed, every job that
\* has entered the wait queue is launched in the end.
C16_QueuedJobLaunched ==
    (CallsKeepComing /\ JobsComplete) =>
        \A j \in 1..MaxJobs :
            (variant = "EB" /\ EB_Rate(st) > 0 /\ j \in Ids(st.jobs)) ~> (j \in Running)

\* the running jobs of s without those the last call launched
BeforeLaunches(s) ==
    [s EXCEPT !.running_jobs = Restrict(@, (DOMAIN @) \ Launched')]

\* C17: EB, RPC1 and RPC2 launch a job only if its energy test passes in
\* that call.  Stated on the state the call leaves, with the most lenient
\* form of each test: in EB (one launch in the call) the energy before the
\* launch is not negative and covers the job with the release of its
\* walltime; in RPC1 the available energy covers the estimate of the job;
\* in RPC2 the available energy, boosts included, and the lookahead of the
\* longest horizon cover it.  Outside the budget period RPC1 and RPC2 test
\* nothing.
C17_LaunchPassesEnergyTest ==
    [][probe'.phase = "open" =>
          \A j \in Launched' :
             CASE variant = "EB" ->
                     Cardinality(Launched') = 1 =>
                        LET walltime == WalltimeOf(st.jobs, probe'.ev, j)
                            required == Cardinality(st'.job_allocations[j])
                                        * power_per_host * walltime
                            before == st'.energy_available + required
                        IN  before >= 0 /\ required <= before + EB_Rate(st') * walltime
               [] variant = "RPC1" ->
                     R1_InBudgetPeriod(st', now') =>
                        R1_estimate_job_energy(st'.running_jobs[j]) <= st'.available_energy
               [] variant = "RPC2" ->
                     R1_InBudgetPeriod(st', now') =>
                        R2_estimate_job_energy(st'.running_jobs[j])
                           <= st'.available_energy
                              + calculate_energy_lookahead(BeforeLaunches(st'), now',
                                                           2 * R2_max_horizon)
               [] OTHER -> TRUE]_vars

(***************************************************************************)
(* batsim_edc_init.  The library as loaded holds null pointers; the call   *)
(* receives a 32-bit flag word, records the format, and either refuses the *)
(* word or allocates the message builder and the containers.  A word is    *)
(* the set of the positions of its bits that are set.                      *)
(***************************************************************************)
nullptr == "nullptr"
FlagBits == 32
BATSIM_EDC_FORMAT_BINARY == 1
BATSIM_EDC_FORMAT_JSON == 2

\* the word of a number below 2^(FlagBits - 1)
WordOf(n) == {i \in 0..(FlagBits - 2) : (n \div 2^i) % 2 = 1}

\* the flag words tried: the small ones, with and without the top bit, and
\* the word of all ones
MaxFlag == 19
Edc_Flags ==
    {WordOf(n) \cup high : n \in 0..MaxFlag, high \in {{}, {FlagBits - 1}}}
    \cup {0..(FlagBits - 1)}

\* a & b
BitAnd(a, b) == a \cap b

\* a | b
BitOr(a, b) == a \cup b

\* the pointers batsim_edc_init allocates
Edc_Pointers(v) ==
    CASE v \in {"PC", "EB"} -> {"mb", "jobs"}
      [] v \in {"RPC1", "RPC2"} -> {"mb", "jobs", "running_jobs", "host_used"}
      [] v = "FCFS" -> {"mb", "waiting_jobs"}

\* the globals of a freshly loaded library
Edc_Loaded(v) == [f \in Edc_Pointers(v) \cup {"format_binary"} |->
                     IF f = "format_binary" THEN TRUE ELSE nullptr]

\* an init that allocates before it looks at the flag word
batsim_edc_init_allocates_first(v, s, flags) ==
    LET known == BitOr(WordOf(BATSIM_EDC_FORMAT_BINARY), WordOf(BATSIM_EDC_FORMAT_JSON))
        made == [f \in DOMAIN s |->
                    IF f = "format_binary"
                    THEN BitAnd(flags, WordOf(BATSIM_EDC_FORMAT_BINARY)) # {}
                    ELSE <<>>]
    IN  [st |-> made,
         ret |-> IF BitAnd(flags, known) # flags THEN 1 ELSE 0]

\* batsim_edc_init: the globals after the call and the value returned
batsim_edc_init(v, s, flags) ==
    LET known == BitOr(WordOf(BATSIM_EDC_FORMAT_BINARY), WordOf(BATSIM_EDC_FORMAT_JSON))
        s1 == [s EXCEPT !.format_binary =
                            BitAnd(flags, WordOf(BATSIM_EDC_FORMAT_BINARY)) # {}]
    IN  IF BitAnd(flags, known) # flags
        THEN [st |-> s1, ret |-> 1]
        ELSE [st |-> [f \in DOMAIN s1 |->
                         IF f \in Edc_Pointers(v) THEN <<>> ELSE s1[f]],
              ret |-> 0]

StartLoad ==
    /\ variant \in {"PC", "EB", "RPC1", "RPC2", "FCFS"}
    /\ st = Edc_Loaded(variant)
    /\ now = 0
    /\ nextId = 0
    /\ closed = FALSE
    /\ wasEmpty = FALSE
    /\ \E flags \in Edc_Flags : probe = [phase |-> "load", flags |-> flags]

\* the one call of batsim_edc_init
Edc_Init ==
    /\ probe.phase = "load"
    /\ LET r == batsim_edc_init(variant, st, probe.flags)
       IN  /\ st' = r.st
           /\ probe' = [phase |-> "init", flags |-> probe.flags, ret |-> r.ret]
    /\ UNCHANGED <<variant, now, nextId, closed, wasEmpty>>

SpecInit == StartLoad /\ [][Edc_Init]_vars

\* no bit of the word is set except those of the two formats
OnlyFormatBits(w) ==
    \A i \in w : WordOf(BATSIM_EDC_FORMAT_BINARY) = {i} \/ WordOf(BATSIM_EDC_FORMAT_JSON) = {i}

\* C18: batsim_edc_init returns zero exactly when the flag word has no bit
\* other than FORMAT_BINARY and FORMAT_JSON; when it has another bit the
\* value returned is not zero and the message builder and the containers
\* are still null, in every variant.
C18_InitZeroIffKnownFlags ==
    probe.phase = "init" =>
       /\ probe.ret \in 0..255
       /\ probe.ret = 0 <=> OnlyFormatBits(probe.flags)
       /\ ~OnlyFormatBits(probe.flags) =>
             /\ probe.ret # 0
             /\ \A f \in Edc_Pointers(variant) : st[f] = nullptr
       /\ OnlyFormatBits(probe.flags) =>
             \A f \in Edc_Pointers(variant) : st[f] # nullptr

\* a flag word with the binary bit and an unknown bit was refused
C18_Witness ==
    /\ probe.phase = "init"
    /\ probe.flags = WordOf(5)
    /\ probe.ret # 0
    /\ st.mb = nullptr

(***************************************************************************)
(* A call whose buffer is not a message.  batsim_edc_take_decisions hands  *)
(* the buffer to deserialize_message and reads the result without a test;  *)
(* its only return statement returns 0.  What the build does with such a   *)
(* buffer is not defined: the bytes are read as some batch at some time    *)
(* and the call returns 0, or the call never returns.                      *)
(***************************************************************************)
\* the energy figures of a variant
EnergyOf(s) ==
    CASE variant = "EB" -> <<s.energy_available, s.energy_consumed, s.reserved_energy>>
      [] IsRPC -> <<s.available_energy, s.consumed_energy>>
      [] variant = "PC" -> <<s.current_power>>
      [] OTHER -> <<>>

\* a decodable call, while the library is still alive
DecodedTick ==
    /\ probe.phase # "crashed"
    /\ OpenTick

\* the bytes are read as a batch and the call returns 0
GarbledTick ==
    /\ Begun
    /\ probe.phase # "crashed"
    /\ UNCHANGED variant
    /\ \E d \in {0, 1}, ev \in OpenEvents(NbHosts, nextId) :
          /\ d = 0 \/ variant \in {"EB", "RPC1", "RPC2"}
          /\ now + d <= OpenMaxTime
          /\ nextId + NbSubmits(<<ev>>) <= MaxJobs
          /\ now' = now + d
          /\ st' \in TakeDecisions(st, <<ev>>, now + d)
          /\ nextId' = nextId + NbSubmits(<<ev>>)
          /\ probe' = [phase |-> "garbled", ev |-> ev,
                        was_running |-> ev.job_id \in Running, ret |-> 0]
    /\ UNCHANGED <<closed, wasEmpty>>

\* the read of the bytes ends the process: nothing is returned
GarbledCrash ==
    /\ Begun
    /\ probe.phase # "crashed"
    /\ probe' = [phase |-> "crashed"]
    /\ UNCHANGED <<variant, st, now, nextId, closed, wasEmpty>>

NextDecode ==
    \/ PC_Begin \/ EB_Begin \/ R1_Begin \/ R2_Begin \/ FCFS_Begin
    \/ DecodedTick \/ GarbledTick \/ GarbledCrash

SpecDecode == Init /\ [][NextDecode]_vars

\* C19: a call of take_decisions whose buffer cannot be decoded returns a
\* failure code other than zero and leaves the queue, the running jobs, the
\* free hosts and the energy figures as they were.
C19_UndecodableInputFails ==
    [][probe'.phase \in {"garbled", "crashed"} /\ probe.phase # "crashed" =>
          /\ probe'.phase = "garbled"
          /\ probe'.ret \in 1..255
          /\ QueueOf(st') = QueueOf(st)
          /\ RunningOf(st') = RunningOf(st)
          /\ FreeOf(st') = FreeOf(st)
          /\ EnergyOf(st') = EnergyOf(st)]_vars

\* C20: in every variant a JobCompleted whose id is not in the running map
\* is ignored: after the event loop of the call the free hosts, the queue,
\* the running jobs and the reservation are what they are after the event
\* loop of a call at the same time that carries no event.
C20_UnknownCompletionIgnored ==
    [][(/\ probe'.phase = "open"
        /\ probe'.ev.type = "complete"
        /\ ~probe'.was_running) =>
          LET with == Ingested(st, <<probe'.ev>>, now')
              without == Ingested(st, <<>>, now')
          IN  /\ FreeOf(with) = FreeOf(without)
              /\ QueueOf(with) = QueueOf(without)
              /\ RunningOf(with) = RunningOf(without)
              /\ ReservationOf(with) = ReservationOf(without)]_vars

\* C21: in both reduced-power variants allocate_hosts_for_job succeeds for a
\* width exactly when that many hosts are free, whatever hosts are busy.
C21_AllocationSucceedsOnFreeCount ==
    (IsRPC /\ Begun) =>
       \A w \in 1..NbHosts :
          R1_CanAllocate(st, [nb_hosts |-> w]) <=> w <= Cardinality(R1_FreeHosts(st))

(***************************************************************************)
(* allocate_and_launch on its own.  The pool is any split of the hosts     *)
(* between the free set and up to two running jobs; the job handed over is *)
(* a third one, of any width the queue can hold.                           *)
(***************************************************************************)
\* the pools: owner[h] is 0 for a free host, else the job that runs on it
Alloc_Pools(H) == [0..(H - 1) -> 0..(MaxJobs - 1)]

Alloc_State(pct, H, owner) ==
    LET running == {owner[h] : h \in DOMAIN owner} \ {0}
    IN  [EB_Globals(pct) EXCEPT
            !.platform_nb_hosts = H,
            !.available_res = {h \in DOMAIN owner : owner[h] = 0},
            !.running_jobs = running,
            !.job_allocations = [j \in running |-> {h \in DOMAIN owner : owner[h] = j}],
            !.energy_available = max_energy_budget * pct]

StartAlloc ==
    /\ variant = "EB"
    /\ \E pct \in EB_Budgets, H \in Hosts :
          \E owner \in Alloc_Pools(H) : st = Alloc_State(pct, H, owner)
    /\ now = 0
    /\ nextId = MaxJobs
    /\ closed = FALSE
    /\ wasEmpty = FALSE
    /\ \E w \in 0..MaxHosts, d \in 1..MaxWall :
          probe = [phase |-> "job",
                   job |-> [job_id |-> MaxJobs, nb_hosts |-> w, walltime |-> d]]

\* one call of allocate_and_launch
Alloc_Call ==
    /\ probe.phase = "job"
    /\ st' = allocate_and_launch(st, probe.job, FALSE)
    /\ probe' = [phase |-> "allocated", job |-> probe.job, before |-> st]
    /\ UNCHANGED <<variant, now, nextId, closed, wasEmpty>>

SpecAlloc == StartAlloc /\ [][Alloc_Call]_vars

\* C22: allocate_and_launch on a job no wider than the free set gives the
\* job exactly its width of free hosts, the lowest-numbered ones, takes
\* exactly those out of the free set and leaves the hosts of the other jobs
\* alone; on a wider job it changes neither the free set nor the running
\* jobs and emits no ExecuteJob.
C22_LaunchTakesLowestFreeHosts ==
    probe.phase = "allocated" =>
       LET before == probe.before
           job == probe.job
           free == before.available_res
       IN  IF job.nb_hosts <= Cardinality(free)
           THEN LET got == st.job_allocations[job.job_id]
                IN  /\ got \subseteq free
                    /\ Cardinality(got) = job.nb_hosts
                    /\ \A h \in got, g \in free \ got : h < g
                    /\ st.available_res = free \ got
                    /\ st.running_jobs = before.running_jobs \cup {job.job_id}
                    /\ \A j \in before.running_jobs :
                          st.job_allocations[j] = before.job_allocations[j]
                    /\ Launched = {job.job_id}
                    /\ \A k \in Executes : st.mb[k].hosts = got
           ELSE /\ st.available_res = free
                /\ st.running_jobs = before.running_jobs
                /\ st.job_allocations = before.job_allocations
                /\ Launched = {}

\* a job of width 1 was launched on host 2 of a pool whose hosts 0 and 1 were busy
C22_Witness ==
    /\ probe.phase = "allocated"
    /\ probe.before.available_res = {2}
    /\ probe.job.nb_hosts = 1
    /\ st.job_allocations[probe.job.job_id] = {2}
    /\ st.available_res = {}

\* the admission rule: hosts, a counter that is not negative, and the energy
\* of the job covered by the counter and what the nominal rate releases
\* during the walltime; the reservation of another job is set aside first
EB_Admissible(s, job) ==
    LET E_job == job.nb_hosts * power_per_host * job.walltime
        A == IF s.reserved_job_id = 0 \/ s.reserved_job_id = job.job_id
             THEN s.energy_available
             ELSE s.energy_available - s.reserved_energy
    IN  /\ Cardinality(s.available_res) >= job.nb_hosts
        /\ A >= 0
        /\ E_job <= A + EB_Rate(s) * job.walltime

\* the job of the queue with a given id
EB_JobOf(s, id) == s.jobs[CHOOSE k \in 1..Len(s.jobs) : s.jobs[k].job_id = id]

\* every ExecuteJob of mb, from the k-th on, is for a job that is admissible
\* in the state the launches before it have left
RECURSIVE EB_LaunchesAdmissible(_, _, _)
EB_LaunchesAdmissible(s, mb, k) ==
    IF k > Len(mb) THEN TRUE
    ELSE IF mb[k].type # "execute" THEN EB_LaunchesAdmissible(s, mb, k + 1)
    ELSE LET job == EB_JobOf(s, mb[k].job_id)
             i == CHOOSE i \in 1..Len(s.jobs) : s.jobs[i].job_id = job.job_id
         IN  /\ EB_Admissible(s, job)
             /\ EB_LaunchesAdmissible(
                    [allocate_and_launch(s, job, FALSE) EXCEPT !.jobs = RemoveAt(@, i)],
                    mb, k + 1)

EB_LongBudgets == {200}
EB_LongWalltimes == {1, budget_period_duration}

EB_LongEvents(H, submitted) ==
    {[type |-> "submit", req |-> w, walltime |-> d, job_id |-> submitted + 1] :
        w \in 1..H, d \in EB_LongWalltimes}
    \cup {[type |-> "complete", req |-> 0, walltime |-> 0, job_id |-> j] :
             j \in 1..submitted}

StartEBLong ==
    /\ variant = "EB"
    /\ \E pct \in EB_LongBudgets : st = EB_Globals(pct)
    /\ now = 0
    /\ nextId = 0
    /\ closed = FALSE
    /\ wasEmpty = FALSE
    /\ probe = ProbeOff

\* a call with one event, at the time of the last call or a second later
EB_LongTick ==
    /\ variant = "EB" /\ Begun
    /\ UNCHANGED variant
    /\ \E d \in EB_Delays, ev \in EB_LongEvents(NbHosts, nextId) :
          /\ now + d <= OpenMaxTime
          /\ nextId + NbSubmits(<<ev>>) <= MaxJobs
          /\ now' = now + d
          /\ st' = EB_take_decisions(st, <<ev>>, now + d)
          /\ nextId' = nextId + NbSubmits(<<ev>>)
          /\ probe' = [phase |-> "open", ev |-> ev,
                        was_running |-> ev.job_id \in Running]
    /\ UNCHANGED <<closed, wasEmpty>>

NextEBLong == EB_Begin \/ EB_LongTick

SpecEBLong == StartEBLong /\ [][NextEBLong]_vars

\* C24: in the EnergyBudget variant the counter of available energy is not
\* negative at the end of a call that has launched a job: admission never
\* takes it below zero.
C24_LaunchKeepsEnergyNonNegative ==
    [][(variant = "EB" /\ Begun /\ Launched' # {}) => st'.energy_available >= 0]_vars

\* C25: in the EnergyBudget variant, at the end of every call, a reservation
\* that is held is for the job at the head of the queue (a reserved job that
\* was launched has had its reservation cleared in the same call), and
\* reserved_energy is zero when no reservation is held.
C25_ReservationIsForQueuedHead ==
    (variant = "EB" /\ Begun) =>
       /\ st.reserved_job_id # 0 =>
             /\ st.jobs # <<>>
             /\ Head(st.jobs).job_id = st.reserved_job_id
             /\ st.reserved_job_id \notin st.running_jobs
       /\ st.reserved_energy # 0 => st.reserved_job_id # 0

\* C26: in the EnergyBudget variant a call installs a reservation only in
\* its second phase, when the queue is not empty, no reservation is held and
\* the head is not admissible; the reservation names the head, its energy
\* and the time now + walltime, and the queue is left as it was.  A head
\* that is admissible in that phase is launched and nothing is reserved.
C26_ReservationOnlyForBlockedHead ==
    [][(variant = "EB" /\ probe'.phase = "open") =>
          \A updated \in {update_energy(Ingested(st, <<probe'.ev>>, now'), now')} :
          \A p1 \in {EB_Phase1(updated, 1, now')} :
          \A p2 \in {EB_Phase2(p1, now')} :
          LET head == Head(p1.jobs)
              eligible == p1.jobs # <<>> /\ p1.reserved_job_id = 0
          IN  /\ ReservationOf(p2) # ReservationOf(p1) =>
                    /\ eligible
                    /\ ~EB_Admissible(p1, head)
                    /\ p2.reserved_job_id = head.job_id
                    /\ p2.reserved_energy = head.nb_hosts * power_per_host * head.walltime
                    /\ p2.reserved_time_end = now' + head.walltime
                    /\ p2.jobs = p1.jobs
                    /\ p2.mb = p1.mb
              /\ (eligible /\ EB_Admissible(p1, head)) =>
                    /\ p2.reserved_job_id = 0
                    /\ head.job_id \in p2.running_jobs
              /\ (eligible /\ ~EB_Admissible(p1, head)) => p2.reserved_job_id = head.job_id
              \* no other phase installs or alters a reservation
              /\ (st'.reserved_job_id # 0 /\ ReservationOf(st') # ReservationOf(updated)) =>
                    /\ ReservationOf(st') = ReservationOf(p2)
                    /\ ReservationOf(p1) = ReservationOf(updated)]_vars

\* a call after time zero reserved for the job it had just received
C26_Witness ==
    /\ variant = "EB"
    /\ probe.phase = "open"
    /\ now > 0
    /\ probe.ev.type = "submit"
    /\ st.reserved_job_id = probe.ev.job_id
    /\ st.jobs # <<>>
    /\ Head(st.jobs).job_id = st.reserved_job_id
    /\ st.reserved_time_end = now + Head(st.jobs).walltime

\* reserve_energy_reducePC of the variant at hand
ReducePC_reserve(s, job, start_time, current_time) ==
    IF variant = "RPC1" THEN R1_reserve_energy_reducePC(s, job, start_time, current_time)
    ELSE R2_reserve_energy_reducePC(s, job, start_time, current_time)

ReducePC_job_energy(job) ==
    IF variant = "RPC1" THEN R1_estimate_job_energy(job) ELSE R2_estimate_job_energy(job)

\* rate, end and flag of the reservation
ReducePC_Reservation(s) ==
    <<s.reduced_energy_rate, s.reservation_end_time, s.has_active_reservation>>

\* start times around now, in 1/TimeScale s
StartsAround(t) == {t * TimeScale + d : d \in {-TimeScale, 0, 1, TimeScale \div 2, TimeScale, 5 * TimeScale}}

\* C27: in both reduced-power variants reserve_energy_reducePC installs a
\* reservation only for a start after now; it then sets the reduced rate to
\* the larger of the minimum rate and energy_rate - E_pivot / (start - now)
\* and the end of the reservation to the start; for a start that is not
\* after now it leaves rate, end and flag as they are.  A call of
\* take_decisions that turns the flag on leaves such a reservation for the
\* head of the queue.
C27_ReservationOnlyForLaterStart ==
    [][(IsRPC /\ probe'.phase = "open") =>
          /\ \A k \in 1..Len(st'.jobs), start \in StartsAround(now') :
                \A r \in {ReducePC_reserve(st', st'.jobs[k], start, now')} :
                   LET dt == start - now' * TimeScale
                   IN  /\ ReducePC_Reservation(r) # ReducePC_Reservation(st') => dt > 0
                       /\ dt <= 0 => r = st'
                       /\ (dt > 0 /\ r.has_active_reservation
                                  /\ R1_InBudgetPeriod(st', now')) =>
                             /\ r.reservation_end_time = start
                             /\ r.reduced_energy_rate =
                                   Max((st'.energy_rate * r.min_rate_factor) \div 10,
                                       st'.energy_rate
                                       - (ReducePC_job_energy(st'.jobs[k]) * TimeScale) \div dt)
          /\ (~st.has_active_reservation /\ st'.has_active_reservation) =>
                LET dt == st'.reservation_end_time - now' * TimeScale
                IN  /\ dt > 0
                    /\ st'.jobs # <<>>
                    /\ st'.reduced_energy_rate =
                          Max((st'.energy_rate * st'.min_rate_factor) \div 10,
                              st'.energy_rate
                              - (ReducePC_job_energy(Head(st'.jobs)) * TimeScale) \div dt)]_vars

\* a call has installed a reservation that lowers the rate until a later time
C27_Witness ==
    /\ IsRPC
    /\ probe.phase = "open"
    /\ st.has_active_reservation
    /\ st.reduced_energy_rate < st.energy_rate
    /\ st.reservation_end_time > now * TimeScale
    /\ st.jobs # <<>>

\* the state of a reduced-power call after update_available_energy, before
\* any job is considered
ReducePC_Updated(s, current_time) ==
    IF variant = "RPC1" THEN R1_update_available_energy(s, current_time)
    ELSE R2_update_available_energy([s EXCEPT !.boosted = 0], current_time)

\* C28: in both reduced-power variants a call made at or after the end of an
\* active reservation clears the reservation and restores the reduced rate
\* to energy_rate before it considers any job, at whatever time the call is
\* made.
C28_ExpiredReservationCleared ==
    [][(/\ IsRPC /\ Begun
        /\ st.has_active_reservation
        /\ now' * TimeScale >= st.reservation_end_time) =>
          \A updated \in {ReducePC_Updated(st, now')} :
             /\ ~updated.has_active_reservation
             /\ updated.reduced_energy_rate = updated.energy_rate]_vars

\* busy and idle hosts of a reduced-power state
ReducePC_Busy(s) == Cardinality(DOMAIN s.host_used) - Cardinality(R1_FreeHosts(s))

\* what busy and idle hosts are estimated to draw in one second
ReducePC_Draw(s) ==
    IF variant = "RPC1"
    THEN ReducePC_Busy(s) * R1_P_comp_est
         + (s.platform_nb_hosts - ReducePC_Busy(s)) * R1_P_idle_est
    ELSE ReducePC_Busy(s) * R2_P_comp_est
         + (s.platform_nb_hosts - ReducePC_Busy(s)) * R2_P_idle_est

\* C29: in both reduced-power variants update_available_energy over an
\* elapsed time D inside the budget period adds reduced_energy_rate * D to
\* available_energy and takes from it what the busy and the idle hosts have
\* drawn over D, and adds that draw to consumed_energy.
C29_UpdateDrawsDownAvailableEnergy ==
    [][(/\ IsRPC /\ Begun
        /\ R1_InBudgetPeriod(st, now')
        /\ st.last_update_time >= st.budget_start_time) =>
          \A updated \in {ReducePC_Updated(st, now')} :
             LET D == now' - st.last_update_time
             IN  /\ updated.consumed_energy = st.consumed_energy + ReducePC_Draw(st) * D
                 /\ updated.available_energy =
                       st.available_energy + st.reduced_energy_rate * D
                       - ReducePC_Draw(st) * D]_vars

\* has_enough_energy of the variant at hand
ReducePC_has_enough_energy(s, job, current_time) ==
    IF variant = "RPC1" THEN R1_has_enough_energy(s, job, current_time)
    ELSE R2_has_enough_energy(s, job, current_time)

\* C30: in both reduced-power variants has_enough_energy accepts a queued
\* job exactly when available_energy is not negative and the energy of the
\* job is within available_energy plus what the current, possibly reduced,
\* rate releases over the walltime of the job.
C30_AdmissionUsesCurrentRate ==
    (IsRPC /\ Begun) =>
       \A k \in 1..Len(st.jobs) :
          LET job == st.jobs[k]
          IN  ReducePC_has_enough_energy(st, job, now)
              <=> /\ st.available_energy >= 0
                  /\ ReducePC_job_energy(job)
                        <= st.available_energy + st.reduced_energy_rate * job.walltime

\* hosts of the running jobs whose projected end is at or before t
RECURSIVE ReducePC_ReleasedBy(_, _, _)
ReducePC_ReleasedBy(s, S, t) ==
    IF S = {} THEN 0
    ELSE LET j == CHOOSE j \in S : TRUE
         IN  (IF s.running_jobs[j].expected_end_time <= t
              THEN s.running_jobs[j].nb_hosts ELSE 0)
             + ReducePC_ReleasedBy(s, S \ {j}, t)

\* the earliest time from current_time on at which the free hosts and the
\* hosts released by then reach the width of the job
ReducePC_HostsFreeAt(s, job, current_time) ==
    LET times == {current_time}
                 \cup {s.running_jobs[j].expected_end_time : j \in DOMAIN s.running_jobs}
        enough == {t \in times :
                     /\ t >= current_time
                     /\ Cardinality(R1_FreeHosts(s))
                        + ReducePC_ReleasedBy(s, DOMAIN s.running_jobs, t)
                           >= job.nb_hosts}
    IN  IF enough = {} THEN current_time + FarFuture
        ELSE CHOOSE t \in enough : \A u \in enough : t <= u

\* C31: in both reduced-power variants, when the head of the queue asks for
\* more hosts than are free while jobs run, the resource time that
\* try_schedule_jobs takes for its start is the earliest time from now on at
\* which the free hosts plus the hosts of the running jobs that are projected
\* to have ended reach the width of the head.
C31_ResourceTimeCountsReleasedHosts ==
    [][(IsRPC /\ probe'.phase = "open") =>
          \A s \in {Ingested(st, <<probe'.ev>>, now')} :
             (/\ s.jobs # <<>>
              /\ DOMAIN s.running_jobs # {}
              /\ Head(s.jobs).nb_hosts > Cardinality(R1_FreeHosts(s))) =>
                R1_EarliestEnd(s, now') = ReducePC_HostsFreeAt(s, Head(s.jobs), now')]_vars

\* C32: in both reduced-power variants the start of a reservation is capped
\* at now + 5 s: a call of take_decisions that installs a reservation leaves
\* its end after now and at most 5 s after now.
C32_ReservationEndsWithinHorizon ==
    [][(/\ IsRPC /\ probe'.phase = "open"
        /\ st'.has_active_reservation
        /\ ReducePC_Reservation(st') # ReducePC_Reservation(st)) =>
          /\ now' * TimeScale < st'.reservation_end_time
          /\ st'.reservation_end_time <= (now' + R2_max_horizon) * TimeScale]_vars

RECURSIVE ReducePC_QueueEnergy(_, _)
ReducePC_QueueEnergy(q, i) ==
    IF i > Len(q) THEN 0 ELSE ReducePC_job_energy(q[i]) + ReducePC_QueueEnergy(q, i + 1)

\* in tenths: 5 when more than half of the queued jobs have less than half
\* the mean energy of the queue, 3 otherwise
ReducePC_QueueFactor(q) ==
    LET small_jobs == Cardinality({k \in 1..Len(q) :
                          2 * Len(q) * ReducePC_job_energy(q[k]) < ReducePC_QueueEnergy(q, 1)})
    IN  IF 2 * small_jobs > Len(q) THEN 5 ELSE 3

\* C33: in both reduced-power variants, when reserve_energy_reducePC installs
\* a reservation for the head of the queue, the floor of the reduced rate is
\* energy_rate times 0.5 if more than half of the queued jobs have less than
\* half the mean energy of the queue, and energy_rate times 0.3 otherwise.
C33_FloorFollowsSmallJobShare ==
    [][(IsRPC /\ probe'.phase = "open") =>
          \A s \in {Ingested(st, <<probe'.ev>>, now')} :
             \A start \in StartsAround(now') :
                s.jobs # <<>> =>
                   \A r \in {ReducePC_reserve(s, Head(s.jobs), start, now')} :
                      ReducePC_Reservation(r) # ReducePC_Reservation(s) =>
                         /\ r.min_rate_factor = ReducePC_QueueFactor(s.jobs)
                         /\ r.reduced_energy_rate
                               >= (s.energy_rate * ReducePC_QueueFactor(s.jobs)) \div 10]_vars

\* the elapsed / 3600.0 of line 104 and the walltime / 3600.0 of line 118
SecondsPerHour == 3600

\* C34: in EnergyBud every energy term counts time in seconds: over an
\* elapsed time D update_energy releases rate * D and draws
\* (busy * P_comp + free * P_idle) * D, and has_enough_energy compares
\* width * P_comp * walltime with what is available plus rate * walltime.
\* power_per_host and idle_power_per_host are the draw of one host over
\* 1/3600 of a second.
C34_EnergyTermsInSeconds ==
    [][(variant = "EB" /\ probe'.phase = "open") =>
          \A s \in {Ingested(st, <<probe'.ev>>, now')} :
             \A u \in {update_energy(s, now')} :
                LET D == now' - s.last_energy_update_time
                    busy == s.platform_nb_hosts - Cardinality(s.available_res)
                    free == Cardinality(s.available_res)
                    drawn == u.energy_consumed - s.energy_consumed
                IN  /\ (s.budget_start_time # 0 /\ D > 0) =>
                          /\ u.energy_released - s.energy_released = EB_Rate(s) * D
                          /\ drawn % SecondsPerHour = 0
                          /\ drawn \div SecondsPerHour
                                = (busy * power_per_host + free * idle_power_per_host) * D
                    /\ \A k \in 1..Len(u.jobs) :
                          LET job == u.jobs[k]
                              available == IF u.reserved_job_id # job.job_id
                                           THEN u.energy_available - u.reserved_energy
                                           ELSE u.energy_available
                          IN  has_enough_energy(u, job)
                              <=> /\ available >= 0
                                  /\ job.nb_hosts * power_per_host * job.walltime
                                        <= (available + EB_Rate(u) * job.walltime)
                                              \div SecondsPerHour]_vars

\* the events of a batch applied to s and the energy state advanced to t
\* after them
EventsThenEnergy(s, batch, t) ==
    CASE variant = "EB" -> update_energy(EB_Events([s EXCEPT !.mb = <<>>], batch, 1), t)
      [] variant = "RPC1" ->
            R1_update_available_energy(
                R1_Events([s EXCEPT !.mb = <<>>], FALSE, batch, 1, t)[1], t)
      [] OTHER ->
            R2_update_available_energy(
                R2_Events([s EXCEPT !.mb = <<>>, !.boosted = 0], FALSE, batch, 1, t)[1], t)

\* the energy a state counts as consumed
ConsumedOf(s) == IF variant = "EB" THEN s.energy_consumed ELSE s.consumed_energy

\* C35: in EnergyBud and in both reduced-power variants a call of
\* take_decisions applies the events of its batch first and advances the
\* energy state to now after them: the energy it counts as consumed is the
\* draw of the hosts that are busy once the completions of the batch have
\* freed their hosts.
C35_EventsBeforeEnergyUpdate ==
    [][(variant \in {"EB", "RPC1", "RPC2"} /\ probe'.phase = "open") =>
          \A u \in {EventsThenEnergy(st, <<probe'.ev>>, now')} :
             ConsumedOf(st') = ConsumedOf(u)]_vars

\* C36: in the reduced-power variant with deadlock prevention
\* available_energy moves only with elapsed time: a call of take_decisions
\* made at the time of the call before it leaves available_energy as it
\* was, whatever events it delivers and however many scheduling attempts
\* have failed.
C36_NoEnergyWithoutElapsedTime ==
    [][(variant = "RPC2" /\ Begun /\ now' = now) =>
          st'.available_energy = st.available_energy]_vars

\* ExecuteJob decisions of a message for job j
ExecutesFor(mb, j) == {k \in 1..Len(mb) : mb[k].type = "execute" /\ mb[k].job_id = j}

\* jobs a message rejects
RejectedIn(mb) == {mb[k].job_id : k \in {k \in 1..Len(mb) : mb[k].type = "reject"}}

\* C37: in every scheduler no accepted job is lost or launched twice: a job
\* submitted in a call is afterwards in exactly one of the wait queue, the
\* running map and the rejected jobs; a queued job stays queued or is
\* running after the call; a job leaves the wait queue only in a call that
\* emits exactly one ExecuteJob for it and puts it in the running map; a
\* call emits no ExecuteJob for a job that stays queued; no job is queued
\* twice.
C37_NoJobLostOrLaunchedTwice ==
    [][Begun =>
          /\ \A j \in (nextId + 1)..nextId' :
                Cardinality({S \in {Ids(Queue'), Running', RejectedIn(st'.mb)} : j \in S}) = 1
          /\ Ids(Queue') \cap Running' = {}
          /\ Ids(Queue') \cap RejectedIn(st'.mb) = {}
          /\ Running' \cap RejectedIn(st'.mb) = {}
          /\ Len(Queue') = Cardinality(Ids(Queue'))
          /\ \A j \in Ids(Queue) : j \in Ids(Queue') \cup Running'
          /\ \A j \in (Ids(Queue) \cup (nextId + 1)..nextId') \ Ids(Queue') :
                j \notin RejectedIn(st'.mb) =>
                   /\ j \in Running'
                   /\ Cardinality(ExecutesFor(st'.mb, j)) = 1
          /\ \A j \in Ids(Queue') \cup Running : ExecutesFor(st'.mb, j) = {}]_vars

\* a call has left at the head of the queue a job for which enough hosts are
\* free but no run of free hosts is long enough, while another job runs
C37_Witness ==
    /\ IsRPC
    /\ Queue # <<>>
    /\ Running # {}
    /\ Launched = {}
    /\ Head(Queue).nb_hosts <= Cardinality(Free)
    /\ ~R1_CanAllocate(st, Head(Queue))

\* C38: in the powercapped scheduler, after SimulationBegins, current_power
\* at the end of every call is the power recomputed from the pool: P_IDLE_A
\* for every free host and P_COMP_A for every other host.
C38_CurrentPowerMatchesPool ==
    (variant = "PC" /\ Begun) => st.current_power = PC_PoolPower(st)

\* C39: in the powercapped scheduler, whenever the wait queue is not empty
\* when the events of a call have been applied and its scheduling begins,
\* shadow_time is the walltime of the job at the head of the queue.
C39_ShadowTimeIsHeadWalltime ==
    [][(variant = "PC" /\ probe'.phase = "open") =>
          \A s \in {Ingested(st, <<probe'.ev>>, now')} :
             s.jobs # <<>> => s.shadow_time = Head(s.jobs).walltime]_vars

\* the width a scheduler keeps for a job
WidthOf(job) == IF variant = "FCFS" THEN job.nb_resources ELSE job.nb_hosts

\* C40: in every scheduler the width kept for a job that a JobSubmitted has
\* put in the wait queue is the width the event asked for, and lies between
\* 1 and the number of hosts.
C40_StoredWidthIsRequestedWidth ==
    [][(probe'.phase = "open" /\ probe'.ev.type = "submit") =>
          \A s \in {Ingested(st, <<probe'.ev>>, now')} :
             \A k \in 1..Len(QueueOf(s)) :
                QueueOf(s)[k].job_id = probe'.ev.job_id =>
                   /\ WidthOf(QueueOf(s)[k]) = probe'.ev.req
                   /\ WidthOf(QueueOf(s)[k]) \in 1..NbHosts]_vars

=============================================================================
